---- MODULE Spec2Model ----
(***************************************************************************)
(* Model of cursor-auto-free: the mailbox poller (get_email_code.py), the  *)
(* auth-database patcher (cursor_auth_manager.py) and the registration     *)
(* workflow (cursor_pro_keep_alive.py).                                    *)
(*                                                                         *)
(* Texts are sequences of one-character strings.  A Python value that may  *)
(* be None is a record: None, or Str(s) for the string s.                  *)
(***************************************************************************)
EXTENDS Integers, Sequences, FiniteSets, TLC

VARIABLES
    \* code extractor run on one message text
    ex_text, ex_pc, ex_result,
    \* CursorAuthManager.update_auth: the itemTable as committed, as it was at
    \* the call, and as the open connection sees it; arguments, position, result
    db, db0, au_view, au_email, au_access, au_refresh, au_i, au_pc, au_ret,
    \* EmailVerificationHandler.get_verification_code: the mode (self.imap),
    \* max_retries, the loop variable, the position and the outcome of the call
    po_imap, po_max, po_attempt, po_pc, po_ret,
    \* the mailbox (oldest message first) and the number of messages received
    mailbox, po_arrived,
    \* verify_code and first_id while _cleanup_mail runs, its delete requests
    po_code, po_first, po_del,
    \* the depth `retry` of _get_mail_code_by_imap
    po_retry,
    \* what the fetch of each attempt returned; list requests; IMAP connections
    po_yield, po_lists, po_conns,
    \* the message each attempt examined and the code found in its text
    po_seen,
    \* the IMAP connections that invocations still running hold open, and
    \* those an invocation that returned has left without logout
    po_open, po_left,
    \* the main program: position, the .env settings, greater_than_0_45, the
    \* menu choice and the exit status
    m_pc, m_env, m_ver, m_choice, m_exit,
    \* a Config() was constructed; ExitCursor() ran; the probe browser of
    \* get_user_agent and the registration browser; the machine identifiers;
    \* reset_machine_id was called
    m_cfg, m_killed, m_probe, m_browser, m_ids, m_reset,
    \* the result of sign_up_account, the session token, the cookie reads of
    \* get_cursor_session_token
    m_signup, m_token, tk_attempts,
    \* sign_up_account: position, calls of get_verification_code and how many
    \* of them raised
    su_pc, su_polls, su_pollfails,
    \* handle_turnstile: retry_count, the call sites at which it returned
    \* False, and the steps executed after such a return
    ht_retry, ht_failed, m_late,
    \* one call of handle_turnstile: max_retries, retry_count, position, the
    \* markers on the page at the last check, what check_verification_success
    \* answered, the outcome of the call
    tn_max, tn_count, tn_pc, tn_page, tn_status, tn_ret,
    \* one construction of Config: the settings, the position, the object or
    \* the exception
    cf_env, cf_pc, cf_obj,
    \* one run of patch_cursor_get_machine_id: position, the version read from
    \* package.json, the files main.js (now and at the start), main.js.bak,
    \* main.js.old and the temporary file, the steps that passed, the exit
    \* status, the result of modify_main_js
    pt_pc, pt_ver, pt_main, pt_main0, pt_bak, pt_old, pt_tmp, pt_passed, pt_exit, mj_ret,
    \* the runs of the script so far, whether this one is in restore mode, the
    \* backups made so far, the result of restore_backup_files, the content
    \* main.js had when the first backup was made
    pt_runs, pt_restore, pt_backups, rb_ret, pt_orig,
    \* one call of reset_machine_ids: storage.json now and at the call, the
    \* dict `config`, the generated identifiers, position, result
    rs_file, rs_file0, rs_cfg, rs_new, rs_pc, rs_ret,
    \* one call of get_cursor_session_token: max_attempts, attempts, the calls
    \* of tab.cookies(), the cookies the last one answered, position, result
    ck_max, ck_attempts, ck_reads, ck_jar, ck_pc, ck_ret,
    \* one call of version_check: its three arguments, position, result
    vc_version, vc_min, vc_max, vc_pc, vc_ret

exVars == <<ex_text, ex_pc, ex_result>>
auVars == <<db, db0, au_view, au_email, au_access, au_refresh, au_i, au_pc, au_ret>>
poVars == <<po_imap, po_max, po_attempt, po_pc, po_ret, mailbox, po_arrived,
            po_code, po_first, po_del, po_retry, po_yield, po_lists, po_conns, po_seen,
            po_open, po_left>>
mnVars == <<m_pc, m_env, m_ver, m_choice, m_exit, m_cfg, m_killed, m_probe, m_browser,
            m_ids, m_reset, m_signup, m_token, tk_attempts>>
suVars == <<su_pc, su_polls, su_pollfails, ht_retry, ht_failed, m_late>>
tnVars == <<tn_max, tn_count, tn_pc, tn_page, tn_status, tn_ret>>
\* the variables of the functions that are followed on their own
cfVars == <<cf_env, cf_pc, cf_obj>>
prVars == <<pt_runs, pt_restore, pt_backups, rb_ret, pt_orig>>
ptVars == <<pt_pc, pt_ver, pt_main, pt_main0, pt_bak, pt_old, pt_tmp, pt_passed, pt_exit, mj_ret,
            pt_runs, pt_restore, pt_backups, rb_ret, pt_orig>>
rsVars == <<rs_file, rs_file0, rs_cfg, rs_new, rs_pc, rs_ret>>
ckVars == <<ck_max, ck_attempts, ck_reads, ck_jar, ck_pc, ck_ret>>
vcVars == <<vc_version, vc_min, vc_max, vc_pc, vc_ret>>
unitVars == <<tnVars, cfVars, ptVars, rsVars, ckVars, vcVars>>
vars == <<exVars, auVars, poVars, mnVars, suVars, unitVars>>

None == [kind |-> "None"]
Str(s) == [kind |-> "str", val |-> s]
\* the call ended with `raise Exception(...)`
Raised == [kind |-> "raise"]

----------------------------------------------------------------------------
(* Characters and the regular expressions of get_email_code.py             *)

Digits == {"0", "1", "2", "3", "4", "5", "6", "7", "8", "9"}
Letters == {"a", "z", "A", "Z"}
Underscore == "_"

IsDigit(c) == c \in Digits
IsLetter(c) == c \in Letters
\* \w of the re module: letters, digits and the underscore
IsWordChar(c) == IsDigit(c) \/ IsLetter(c) \/ c = Underscore

\* number of digits of \d{6}
CodeLen == 6

IsWordAt(t, i) == i \in 1..Len(t) /\ IsWordChar(t[i])

\* \b between positions i-1 and i of t (i in 1..Len(t)+1)
WordBoundary(t, i) == IsWordAt(t, i - 1) # IsWordAt(t, i)

\* (?<![a-zA-Z@.]) at position i
LookbehindOK(t, i) == i = 1 \/ ~(IsLetter(t[i - 1]) \/ t[i - 1] \in {"@", "."})

\* \b\d{6}\b matches at position i
SixDigitsAt(t, i) ==
    /\ i + CodeLen - 1 <= Len(t)
    /\ WordBoundary(t, i)
    /\ \A k \in 0..(CodeLen - 1) : IsDigit(t[i + k])
    /\ WordBoundary(t, i + CodeLen)

\* the mutant: the pattern without its lookbehind
TempMailMatchAt_NoLookbehind(t, i) == SixDigitsAt(t, i)

\* (?<![a-zA-Z@.])\b\d{6}\b matches at position i
TempMailMatchAt(t, i) == LookbehindOK(t, i) /\ SixDigitsAt(t, i)

\* re.search(...): the leftmost match; code_match.group() or None
TempMailExtract(t) ==
    LET hits == {i \in 1..Len(t) : TempMailMatchAt(t, i)}
    IN  IF hits = {} THEN None
        ELSE LET p == CHOOSE i \in hits : \A j \in hits : i <= j
             IN  Str(SubSeq(t, p, p + CodeLen - 1))

\* re.search(r"\b\d{6}\b", body) of the IMAP branch
ImapExtract(t) ==
    LET hits == {i \in 1..Len(t) : SixDigitsAt(t, i)}
    IN  IF hits = {} THEN None
        ELSE LET p == CHOOSE i \in hits : \A j \in hits : i <= j
             IN  Str(SubSeq(t, p, p + CodeLen - 1))

----------------------------------------------------------------------------
(* Message texts the extractor is run on: one or two digit runs, each with *)
(* an optional neighbouring character on either side.                      *)

\* digit runs have CodeLen - RunSlack .. CodeLen + RunSlack digits
RunSlack == 1

RunLens == (CodeLen - RunSlack)..(CodeLen + RunSlack)
AffixChars == {"a", "Z", "_", "@", ".", " "}
Affixes == {<<>>} \cup {<<c>> : c \in AffixChars}

Run(d, n) == [k \in 1..n |-> d]
Segment(pre, d, n, post) == pre \o Run(d, n) \o post

Segments(d) == {Segment(pre, d, n, post) : pre \in Affixes, n \in RunLens, post \in Affixes}

ExtractTexts ==
    {<<>>} \cup Segments("1")
           \cup {s1 \o s2 : s1 \in Segments("1"), s2 \in {Segment(<<>>, "2", CodeLen, post) : post \in Affixes}}
           \cup {s1 \o <<" ">> \o s2 : s1 \in {Segment(pre, "1", CodeLen, <<>>) : pre \in Affixes}, s2 \in Segments("2")}

ExtractIdle == ex_text = <<>> /\ ex_pc = "idle" /\ ex_result = None

ExtractInit == ex_text \in ExtractTexts /\ ex_pc = "ready" /\ ex_result = None

\* lines 157-165 of _get_latest_mail_code on the text of the fetched message
ExtractStep ==
    /\ ex_pc = "ready"
    /\ ex_result' = TempMailExtract(ex_text)
    /\ ex_pc' = "done"
    /\ UNCHANGED ex_text

----------------------------------------------------------------------------
(* CursorAuthManager.update_auth (cursor_auth_manager.py)                  *)

SignUpTypeKey == "cursorAuth/cachedSignUpType"
EmailKey == "cursorAuth/cachedEmail"
AccessKey == "cursorAuth/accessToken"
RefreshKey == "cursorAuth/refreshToken"
OtherKey == "telemetry/other"
AuthKeys == {SignUpTypeKey, EmailKey, AccessKey, RefreshKey}
Keys == AuthKeys \cup {OtherKey}

\* a key with no row in itemTable
Absent == "<absent>"
Values == {"old", "Auth_0", "e1", "t1", "t2"}
Stores == [Keys -> Values \cup {Absent}]

\* the list `updates` built from the arguments
Updates(email, access, refresh) ==
    <<(<<SignUpTypeKey, "Auth_0">>)>>
        \o (IF email # None THEN <<(<<EmailKey, email.val>>)>> ELSE <<>>)
        \o (IF access # None THEN <<(<<AccessKey, access.val>>)>> ELSE <<>>)
        \o (IF refresh # None THEN <<(<<RefreshKey, refresh.val>>)>> ELSE <<>>)

au_updates == Updates(au_email, au_access, au_refresh)

\* the mutant: UPDATE only, a missing key is not inserted
Upsert_UpdateOnly(store, key, value) ==
    IF store[key] = Absent THEN store ELSE [store EXCEPT ![key] = value]

\* SELECT COUNT(*) ...; INSERT when 0, UPDATE otherwise
Upsert(store, key, value) ==
    IF store[key] = Absent
    THEN [store EXCEPT ![key] = value]
    ELSE [store EXCEPT ![key] = value]

\* the mutant: the statements of a failed call stay in the file
CloseWithoutCommit_KeepsPending(committed, pending) == pending

\* conn.close() with no conn.commit() before it: the implicit transaction the
\* sqlite3 module opened before the first INSERT/UPDATE is rolled back
CloseWithoutCommit(committed, pending) == committed

AuthIdle ==
    /\ db = [k \in Keys |-> Absent] /\ db0 = db /\ au_view = db
    /\ au_email = None /\ au_access = None /\ au_refresh = None
    /\ au_i = 1 /\ au_pc = "idle" /\ au_ret = "none"

AuthInit ==
    /\ db \in [Keys -> {Absent, "old"}] /\ db0 = db /\ au_view = db
    /\ au_email \in {None, Str("e1")}
    /\ au_access \in {None, Str("t1"), Str("t2")}
    /\ au_refresh \in {None, Str("t1"), Str("t2")}
    /\ au_i = 1 /\ au_pc = "connect" /\ au_ret = "none"

\* return False from an except clause, then finally: conn.close()
AuthFail ==
    /\ db' = CloseWithoutCommit(db, au_view)
    /\ au_view' = db'
    /\ au_pc' = "done" /\ au_ret' = "False"
    /\ UNCHANGED <<db0, au_email, au_access, au_refresh, au_i>>

\* sqlite3.connect(self.db_path); conn.cursor()
AuthConnect ==
    /\ au_pc = "connect"
    /\ au_view' = db
    /\ au_pc' = "loop"
    /\ UNCHANGED <<db, db0, au_email, au_access, au_refresh, au_i, au_ret>>

\* sqlite3.connect raises: conn stays None, return False
AuthConnectError ==
    /\ au_pc = "connect"
    /\ au_pc' = "done" /\ au_ret' = "False"
    /\ UNCHANGED <<db, db0, au_view, au_email, au_access, au_refresh, au_i>>

\* one iteration of `for key, value in updates`
AuthUpsert ==
    /\ au_pc = "loop" /\ au_i <= Len(au_updates)
    /\ au_view' = Upsert(au_view, au_updates[au_i][1], au_updates[au_i][2])
    /\ au_i' = au_i + 1
    /\ UNCHANGED <<db, db0, au_email, au_access, au_refresh, au_pc, au_ret>>

\* a statement of the iteration raises sqlite3.Error
AuthUpsertError ==
    /\ au_pc = "loop" /\ au_i <= Len(au_updates)
    /\ AuthFail

\* conn.commit(); return True; finally: conn.close()
AuthCommit ==
    /\ au_pc = "loop" /\ au_i > Len(au_updates)
    /\ db' = au_view
    /\ au_pc' = "done" /\ au_ret' = "True"
    /\ UNCHANGED <<db0, au_view, au_email, au_access, au_refresh, au_i>>

\* conn.commit() raises
AuthCommitError ==
    /\ au_pc = "loop" /\ au_i > Len(au_updates)
    /\ AuthFail

----------------------------------------------------------------------------
(* EmailVerificationHandler.get_verification_code (get_email_code.py)      *)

\* largest max_retries a call is made with
MaxRetries == 2
\* messages that reach the mailbox during one call
MaxMails == 2

\* `for _ in range(5)` of _cleanup_mail
DeleteTries == 5
\* `if retry >= 20` of _get_mail_code_by_imap
ImapRetryLimit == 20

\* message texts: a code, no code, a six-digit run after an '@'
PollTexts == {Segment(<<" ">>, "1", CodeLen, <<".">>), <<"a">>, Segment(<<"@">>, "2", CodeLen, <<>>)}

\* the mutant: the oldest message is taken
Newest_Oldest == mailbox[1]

\* the message the list answers as first_id; mail_ids[-1] of the IMAP search
Newest == mailbox[Len(mailbox)]

\* no message was fetched; message m was fetched and `code` found in its text
NoMessage == [id |-> 0, code |-> None]
Examined(m, code) == [id |-> m.id, code |-> code]
Remove(box, id) == SelectSeq(box, LAMBDA m : m.id # id)

PollIdle ==
    /\ po_imap = FALSE /\ po_max = 0 /\ po_attempt = 0 /\ po_pc = "idle" /\ po_ret = None
    /\ mailbox = <<>> /\ po_arrived = 0
    /\ po_code = None /\ po_first = 0 /\ po_del = 0 /\ po_retry = 0
    /\ po_yield = <<>> /\ po_lists = 0 /\ po_conns = 0 /\ po_seen = <<>>
    /\ po_open = 0 /\ po_left = 0

PollInit ==
    /\ po_imap \in BOOLEAN /\ po_max \in 0..MaxRetries
    /\ po_attempt = 0 /\ po_pc = "loop" /\ po_ret = None
    /\ mailbox = <<>> /\ po_arrived = 0
    /\ po_code = None /\ po_first = 0 /\ po_del = 0 /\ po_retry = 0
    /\ po_yield = <<>> /\ po_lists = 0 /\ po_conns = 0 /\ po_seen = <<>>
    /\ po_open = 0 /\ po_left = 0

\* a message reaches the mailbox while the call runs
MailArrives ==
    /\ po_pc \in {"loop", "fetch", "cleanup", "imap"}
    /\ po_arrived < MaxMails
    /\ \E t \in PollTexts :
          mailbox' = Append(mailbox, [id |-> po_arrived + 1, text |-> t])
    /\ po_arrived' = po_arrived + 1
    /\ UNCHANGED <<po_open, po_left, po_imap, po_max, po_attempt, po_pc, po_ret, po_code, po_first,
                   po_del, po_retry, po_yield, po_lists, po_conns, po_seen>>

\* the mutant: the function ends with `return None`, as its docstring says
AfterLoop_ReturnsNone == None

\* line 56, after the for loop
AfterLoop == Raised

\* `for attempt in range(max_retries)`: the next attempt begins
PollLoop ==
    /\ po_pc = "loop" /\ po_attempt < po_max
    /\ po_pc' = IF po_imap THEN "imap" ELSE "fetch"
    /\ po_retry' = 0
    /\ UNCHANGED <<po_open, po_left, po_imap, po_max, po_attempt, po_ret, mailbox, po_arrived,
                   po_code, po_first, po_del, po_yield, po_lists, po_conns, po_seen>>

\* the loop is exhausted: raise Exception("... after N attempts")
PollExhausted ==
    /\ po_pc = "loop" /\ po_attempt >= po_max
    /\ po_pc' = "done" /\ po_ret' = AfterLoop
    /\ UNCHANGED <<po_open, po_left, po_imap, po_max, po_attempt, mailbox, po_arrived,
                   po_code, po_first, po_del, po_retry, po_yield, po_lists, po_conns, po_seen>>

\* lines 44-46: no code in this attempt, sleep unless it was the last one
NoCodeThisAttempt ==
    /\ po_attempt' = po_attempt + 1
    /\ po_pc' = "loop"
    /\ UNCHANGED po_ret

\* lines 48-54: an exception in the attempt; retry, or raise in the last one
ExceptionInAttempt ==
    IF po_attempt < po_max - 1
    THEN po_attempt' = po_attempt + 1 /\ po_pc' = "loop" /\ UNCHANGED po_ret
    ELSE po_attempt' = po_attempt /\ po_pc' = "done" /\ po_ret' = Raised

\* _get_latest_mail_code: a request or the parsing of its answer raises
GetLatestMailCodeRaises ==
    /\ po_pc = "fetch"
    /\ po_lists' = po_lists + 1
    /\ po_yield' = Append(po_yield, None)
    /\ po_seen' = Append(po_seen, NoMessage)
    /\ ExceptionInAttempt
    /\ UNCHANGED <<po_open, po_left, po_imap, po_max, mailbox, po_arrived, po_code, po_first,
                   po_del, po_retry, po_conns>>

\* _get_latest_mail_code: "result" of the list or of the detail answer is falsy
GetLatestMailCodeNoResult ==
    /\ po_pc = "fetch"
    /\ po_lists' = po_lists + 1
    /\ po_yield' = Append(po_yield, None)
    /\ po_seen' = Append(po_seen, NoMessage)
    /\ NoCodeThisAttempt
    /\ UNCHANGED <<po_open, po_left, po_imap, po_max, mailbox, po_arrived, po_code, po_first,
                   po_del, po_retry, po_conns>>

\* _get_latest_mail_code: no first_id, or the text of message first_id searched
GetLatestMailCode ==
    /\ po_pc = "fetch"
    /\ po_lists' = po_lists + 1
    /\ LET code == IF mailbox = <<>> THEN None ELSE TempMailExtract(Newest.text)
       IN  /\ po_yield' = Append(po_yield, code)
           /\ po_seen' = Append(po_seen, IF mailbox = <<>> THEN NoMessage
                                                            ELSE Examined(Newest, code))
           /\ IF code # None
              THEN /\ po_pc' = "cleanup"
                   /\ po_code' = code /\ po_first' = Newest.id /\ po_del' = 0
                   /\ UNCHANGED <<po_attempt, po_ret>>
              ELSE /\ NoCodeThisAttempt
                   /\ UNCHANGED <<po_code, po_first, po_del>>
    /\ UNCHANGED <<po_open, po_left, po_imap, po_max, mailbox, po_arrived, po_retry, po_conns>>

\* _cleanup_mail: the delete request is answered with "result": true
CleanupDeleted ==
    /\ po_pc = "cleanup" /\ po_del < DeleteTries
    /\ po_del' = po_del + 1
    /\ mailbox' = Remove(mailbox, po_first)
    /\ po_pc' = "done" /\ po_ret' = po_code
    /\ UNCHANGED <<po_open, po_left, po_imap, po_max, po_attempt, po_arrived, po_code, po_first,
                   po_retry, po_yield, po_lists, po_conns, po_seen>>

\* _cleanup_mail: another answer, or one that cannot be parsed; sleep and retry
CleanupRefused ==
    /\ po_pc = "cleanup" /\ po_del < DeleteTries
    /\ po_del' = po_del + 1
    /\ UNCHANGED <<po_open, po_left, po_imap, po_max, po_attempt, po_pc, po_ret, mailbox, po_arrived,
                   po_code, po_first, po_retry, po_yield, po_lists, po_conns, po_seen>>

\* _cleanup_mail: five requests without success, return False
CleanupGivesUp ==
    /\ po_pc = "cleanup" /\ po_del >= DeleteTries
    /\ po_pc' = "done" /\ po_ret' = po_code
    /\ UNCHANGED <<po_open, po_left, po_imap, po_max, po_attempt, mailbox, po_arrived, po_code,
                   po_first, po_del, po_retry, po_yield, po_lists, po_conns, po_seen>>

\* _cleanup_mail: session.delete itself raises (it is outside the inner try);
\* the request may or may not have reached the server
CleanupRaises ==
    /\ po_pc = "cleanup" /\ po_del < DeleteTries
    /\ po_del' = po_del + 1
    /\ \E removed \in BOOLEAN :
          mailbox' = IF removed THEN Remove(mailbox, po_first) ELSE mailbox
    /\ ExceptionInAttempt
    /\ UNCHANGED <<po_open, po_left, po_imap, po_max, po_arrived, po_code, po_first,
                   po_retry, po_yield, po_lists, po_conns, po_seen>>

\* the mutant: the timeout is tested with > instead of >=
ImapTimedOut_OffByOne(retry) == retry > ImapRetryLimit

\* `if retry >= 20: raise`
ImapTimedOut(retry) == retry >= ImapRetryLimit

\* _get_mail_code_by_imap returns None to get_verification_code
ImapReturnsNone ==
    /\ po_yield' = Append(po_yield, None)
    /\ NoCodeThisAttempt
    /\ UNCHANGED <<po_imap, po_max, po_code, po_first, po_del, po_retry, po_lists>>

\* the invocation returns, and with it every invocation that waits for its
\* result: `left` tells whether it returns without mail.logout(); the
\* connections of the waiting invocations were not logged out either
ImapInvocationsReturn(left) ==
    /\ po_left' = po_left + po_open + (IF left THEN 1 ELSE 0)
    /\ po_open' = 0

\* the innermost call raises the timeout; the `except` of the call that made
\* it returns None, and so does every call above
ImapTimeout ==
    /\ po_pc = "imap" /\ ImapTimedOut(po_retry)
    /\ ImapReturnsNone
    /\ po_seen' = Append(po_seen, NoMessage)
    /\ ImapInvocationsReturn(FALSE)
    /\ UNCHANGED <<mailbox, po_arrived, po_conns>>

\* connecting raises (no connection), or login or select raises, or search
\* or fetch answers not OK (a connection that is not logged out)
ImapFails ==
    /\ po_pc = "imap" /\ ~ImapTimedOut(po_retry)
    /\ po_conns' = po_conns + 1
    /\ \E connected \in BOOLEAN : ImapInvocationsReturn(connected)
    /\ ImapReturnsNone
    /\ po_seen' = Append(po_seen, NoMessage)
    /\ UNCHANGED <<mailbox, po_arrived>>

\* the search finds no message: `return self._get_mail_code_by_imap(retry + 1)`
ImapEmpty ==
    /\ po_pc = "imap" /\ ~ImapTimedOut(po_retry)
    /\ mailbox = <<>>
    /\ po_conns' = po_conns + 1
    /\ po_retry' = po_retry + 1
    /\ po_open' = po_open + 1
    /\ UNCHANGED <<po_left, po_imap, po_max, po_attempt, po_pc, po_ret, mailbox, po_arrived,
                   po_code, po_first, po_del, po_yield, po_lists, po_seen>>

\* the body of the last message of the search result is searched for a code;
\* when one is found the message is deleted, expunged, and the code returned;
\* with or without a code this connection is logged out
ImapRead ==
    /\ po_pc = "imap" /\ ~ImapTimedOut(po_retry)
    /\ mailbox # <<>>
    /\ po_conns' = po_conns + 1
    /\ ImapInvocationsReturn(FALSE)
    /\ LET code == ImapExtract(Newest.text)
       IN  /\ po_yield' = Append(po_yield, code)
           /\ po_seen' = Append(po_seen, Examined(Newest, code))
           /\ IF code # None
              THEN /\ mailbox' = Remove(mailbox, Newest.id)
                   /\ po_pc' = "done" /\ po_ret' = code
                   /\ UNCHANGED po_attempt
              ELSE /\ NoCodeThisAttempt
                   /\ UNCHANGED mailbox
    /\ UNCHANGED <<po_imap, po_max, po_arrived, po_code, po_first, po_del,
                   po_retry, po_lists>>

\* a code is found but store, expunge or logout raises: `except` returns None
ImapDeleteRaises ==
    /\ po_pc = "imap" /\ ~ImapTimedOut(po_retry)
    /\ mailbox # <<>> /\ ImapExtract(Newest.text) # None
    /\ po_conns' = po_conns + 1
    /\ \E removed \in BOOLEAN :
          mailbox' = IF removed THEN Remove(mailbox, Newest.id) ELSE mailbox
    /\ ImapReturnsNone
    /\ po_seen' = Append(po_seen, Examined(Newest, ImapExtract(Newest.text)))
    /\ ImapInvocationsReturn(TRUE)
    /\ UNCHANGED po_arrived

----------------------------------------------------------------------------
(* Config (config.py)                                                      *)

\* a setting is a text made of these pieces; "null" stands for its four
\* letters, "x" for any other text without blank or '@'
EnvPieces == {" ", "@", "null", "x"}
NullText == <<"null">>
\* a variable the .env file does not set
Unset == <<"<unset>">>

\* longest TEMP_MAIL setting, in pieces
MaxEnvLen == 2

EnvValues(n) == UNION {[1..k -> EnvPieces] : k \in 0..n}

\* os.getenv(name, default)
Getenv(value, default) == IF value = Unset THEN default ELSE value

RECURSIVE LStrip(_)
LStrip(v) == IF v # <<>> /\ Head(v) = " " THEN LStrip(Tail(v)) ELSE v
RECURSIVE RStrip(_)
RStrip(v) == IF v # <<>> /\ v[Len(v)] = " " THEN RStrip(SubSeq(v, 1, Len(v) - 1)) ELSE v

\* value.strip()
Strip(v) == RStrip(LStrip(v))

\* value.split("@")[0]
LocalPart(v) ==
    LET at == {i \in 1..Len(v) : v[i] = "@"}
    IN  IF at = {} THEN v
        ELSE SubSeq(v, 1, (CHOOSE i \in at : \A j \in at : i <= j) - 1)

\* the mutant: every value counts as configured
check_is_valid_Always(v) == TRUE

\* check_is_valid
check_is_valid(v) == Len(Strip(v)) > 0

\* the attributes set by Config.__init__ from the environment; the imap_*
\* attributes exist in IMAP mode only
ConfigAttrs(env) ==
    LET temp_mail == LocalPart(Strip(Getenv(env.TEMP_MAIL, <<>>)))
        domain == Strip(Getenv(env.DOMAIN_, <<>>))
    IN  IF temp_mail # NullText
        THEN [imap |-> FALSE, temp_mail |-> temp_mail, domain |-> domain]
        ELSE [imap |-> TRUE, temp_mail |-> temp_mail, domain |-> domain,
              imap_server |-> Strip(Getenv(env.IMAP_SERVER, <<>>)),
              imap_port |-> Strip(Getenv(env.IMAP_PORT, <<>>)),
              imap_user |-> Strip(Getenv(env.IMAP_USER, <<>>)),
              imap_pass |-> Strip(Getenv(env.IMAP_PASS, <<>>)),
              imap_dir |-> Strip(Getenv(env.IMAP_DIR, <<"x">>))]

\* the exception Config() ends with, or "ok"
ConfigOutcome(env) ==
    LET c == ConfigAttrs(env)
    IN  IF ~env.dotenv THEN "FileNotFoundError"
        ELSE IF ~check_is_valid(c.domain) THEN "ValueError"
        ELSE IF c.temp_mail # NullText
             THEN (IF check_is_valid(c.temp_mail) THEN "ok" ELSE "ValueError")
        ELSE IF \E v \in {c.imap_server, c.imap_port, c.imap_user, c.imap_pass} :
                    v = NullText \/ ~check_is_valid(v)
             THEN "ValueError"
        ELSE IF c.imap_dir # NullText /\ ~check_is_valid(c.imap_dir) THEN "ValueError"
        ELSE "ok"

\* Config(): the object, or the exception its construction raises
Config(env) ==
    IF ConfigOutcome(env) = "ok"
    THEN [kind |-> "Config", attrs |-> ConfigAttrs(env)]
    ELSE [kind |-> "raise", exc |-> ConfigOutcome(env)]

TempMailEnv ==
    [dotenv |-> TRUE, TEMP_MAIL |-> <<"x", "@", "x">>, DOMAIN_ |-> <<"x">>,
     IMAP_SERVER |-> Unset, IMAP_PORT |-> Unset, IMAP_USER |-> Unset, IMAP_PASS |-> Unset,
     IMAP_DIR |-> Unset]
ImapEnv ==
    [TempMailEnv EXCEPT !.TEMP_MAIL = NullText, !.IMAP_SERVER = <<"x">>,
                        !.IMAP_PORT = <<"x">>, !.IMAP_USER = <<"x">>, !.IMAP_PASS = <<"x">>]

\* the settings the program is started with: two valid ones, no .env file,
\* an empty DOMAIN, a blank TEMP_MAIL, IMAP mode without a server
MainEnvs ==
    {TempMailEnv, ImapEnv,
     [TempMailEnv EXCEPT !.dotenv = FALSE],
     [TempMailEnv EXCEPT !.DOMAIN_ = <<>>],
     [TempMailEnv EXCEPT !.TEMP_MAIL = <<" ">>],
     [ImapEnv EXCEPT !.IMAP_SERVER = NullText]}

ImapValues == {Unset, <<>>, NullText, <<"x">>}

\* the settings Config() is constructed on
ConfigEnvs ==
    [dotenv : BOOLEAN, TEMP_MAIL : EnvValues(MaxEnvLen) \cup {Unset},
     DOMAIN_ : {Unset, <<" ">>, NullText, <<" ", "x">>},
     IMAP_SERVER : ImapValues, IMAP_PORT : ImapValues \ {Unset},
     IMAP_USER : {NullText, <<"x">>}, IMAP_PASS : {<<" ">>, <<"x", " ">>},
     IMAP_DIR : {Unset, NullText, <<" ">>}]

ConfigIdle == cf_env = TempMailEnv /\ cf_pc = "idle" /\ cf_obj = None

ConfigInit == cf_env \in ConfigEnvs /\ cf_pc = "new" /\ cf_obj = None

\* Config()
ConfigConstruct ==
    /\ cf_pc = "new"
    /\ cf_obj' = Config(cf_env)
    /\ cf_pc' = "done"
    /\ UNCHANGED cf_env

----------------------------------------------------------------------------
(* The browser driver (cursor_pro_keep_alive.py)                           *)

\* the mutant: the markers are scanned in the opposite order
VerificationStatus_Reversed == <<"ACCOUNT_SETTINGS", "CAPTCHA_PAGE", "PASSWORD_PAGE">>

\* class VerificationStatus, in definition order
VerificationStatus == <<"PASSWORD_PAGE", "CAPTCHA_PAGE", "ACCOUNT_SETTINGS">>
Markers == {VerificationStatus[i] : i \in 1..Len(VerificationStatus)}

\* check_verification_success on a page showing the markers `present`
check_verification_success(present) ==
    LET hits == {i \in 1..Len(VerificationStatus) : VerificationStatus[i] \in present}
    IN  IF hits = {} THEN None
        ELSE Str(VerificationStatus[CHOOSE i \in hits : \A j \in hits : i <= j])

\* default max_retries of handle_turnstile
TurnstileRetries == 2
\* default max_attempts of get_cursor_session_token
TokenAttempts == 3

\* calls of get_verification_code followed within one sign_up_account
MaxPollCalls == 2

\* what a call of get_verification_code can end with (C2 checks it on the
\* poller): a six-digit code, or an exception
get_verification_code_outcomes == {Raised} \cup {Str(Run(d, CodeLen)) : d \in {"1", "2"}}

\* the steps of the workflow that follow a handle_turnstile call
LaterSteps == {"password", "code", "token", "auth", "reset"}
Late(step) == IF ht_failed # {} THEN m_late \cup {step} ELSE m_late

MainIdle ==
    /\ m_pc = "idle" /\ m_env = TempMailEnv /\ m_ver = FALSE /\ m_choice = 0 /\ m_exit = "none"
    /\ m_cfg = FALSE /\ m_killed = FALSE /\ m_probe = "none" /\ m_browser = "none"
    /\ m_ids = "orig" /\ m_reset = FALSE
    /\ m_signup = "none" /\ m_token = None /\ tk_attempts = 0
    /\ su_pc = "idle" /\ su_polls = 0 /\ su_pollfails = 0
    /\ ht_retry = 0 /\ ht_failed = {} /\ m_late = {}

MainInit ==
    /\ m_pc = "start" /\ m_env \in MainEnvs /\ m_ver = FALSE /\ m_choice = 0 /\ m_exit = "none"
    /\ m_cfg = FALSE /\ m_killed = FALSE /\ m_probe = "none" /\ m_browser = "none"
    /\ m_ids = "orig" /\ m_reset = FALSE
    /\ m_signup = "none" /\ m_token = None /\ tk_attempts = 0
    /\ su_pc = "idle" /\ su_polls = 0 /\ su_pollfails = 0
    /\ ht_retry = 0 /\ ht_failed = {} /\ m_late = {}

\* the itemTable the program finds: empty, or with every key present
MainAuthInit ==
    /\ db \in {[k \in Keys |-> Absent], [k \in Keys |-> "old"]}
    /\ db0 = db /\ au_view = db
    /\ au_email = None /\ au_access = None /\ au_refresh = None
    /\ au_i = 1 /\ au_pc = "idle" /\ au_ret = "none"

\* `if not code:`: the truth value of a text or None
Truthy(v) == v # None /\ v.val # <<>>

\* the mutant: the session token is not tested
TokenOK_Always(token) == TRUE

\* `if token:` in __main__
TokenOK(token) == token # None /\ token.val # ""

\* reset_machine_id: go_cursor_help or MachineIDResetter().reset_machine_ids(),
\* which replaces the identifiers or fails and leaves them
ResetMachineId ==
    /\ m_reset' = TRUE
    /\ \E ok \in BOOLEAN : m_ids' = IF ok THEN "new" ELSE m_ids

\* greater_than_0_45 = check_cursor_version()
MainCheckVersion ==
    /\ m_pc = "start"
    /\ m_ver' \in BOOLEAN
    /\ m_pc' = "exit_cursor"
    /\ UNCHANGED <<m_env, m_choice, m_exit, m_cfg, m_killed, m_probe, m_browser, m_ids,
                   m_reset, m_signup, m_token, tk_attempts, suVars, auVars>>

\* check_cursor_version raises (package.json unreadable): outside the try
MainCheckVersionRaises ==
    /\ m_pc = "start"
    /\ m_pc' = "ended" /\ m_exit' = "traceback"
    /\ UNCHANGED <<m_env, m_ver, m_choice, m_cfg, m_killed, m_probe, m_browser, m_ids,
                   m_reset, m_signup, m_token, tk_attempts, suVars, auVars>>

\* ExitCursor()
MainExitCursor ==
    /\ m_pc = "exit_cursor"
    /\ m_killed' = TRUE
    /\ m_pc' = "menu"
    /\ UNCHANGED <<m_env, m_ver, m_choice, m_exit, m_cfg, m_probe, m_browser, m_ids,
                   m_reset, m_signup, m_token, tk_attempts, suVars, auVars>>

\* the input is no number, or is neither 1 nor 2: the prompt is repeated
MainMenuInvalid ==
    /\ m_pc = "menu"
    /\ UNCHANGED <<mnVars, suVars, auVars>>

\* input() raises EOFError (the standard input is at its end): it is no
\* ValueError, so the loop is left for the except clause, then finally
MainMenuEOF ==
    /\ m_pc = "menu"
    /\ m_pc' = "finally"
    /\ UNCHANGED <<m_env, m_ver, m_choice, m_exit, m_cfg, m_killed, m_probe, m_browser,
                   m_ids, m_reset, m_signup, m_token, tk_attempts, suVars, auVars>>

\* the input parses to 1 or 2
MainMenuChoice ==
    /\ m_pc = "menu"
    /\ m_choice' \in {1, 2}
    /\ m_pc' = IF m_choice' = 1 THEN "reset_only" ELSE "user_agent"
    /\ UNCHANGED <<m_env, m_ver, m_exit, m_cfg, m_killed, m_probe, m_browser, m_ids,
                   m_reset, m_signup, m_token, tk_attempts, suVars, auVars>>

\* choice 1: reset_machine_id, print_end_message, sys.exit(0)
MainResetOnly ==
    /\ m_pc = "reset_only"
    /\ ResetMachineId
    /\ m_exit' = "0"
    /\ m_pc' = "finally"
    /\ UNCHANGED <<m_env, m_ver, m_choice, m_cfg, m_killed, m_probe, m_browser,
                   m_signup, m_token, tk_attempts, suVars, auVars>>

\* get_user_agent: the probe browser is started and quit; or run_js raises
\* after it was started; or it could not be started
MainUserAgent ==
    /\ m_pc = "user_agent"
    /\ m_probe' \in {"quit", "running", "none"}
    /\ m_pc' = "browser"
    /\ UNCHANGED <<m_env, m_ver, m_choice, m_exit, m_cfg, m_killed, m_browser, m_ids,
                   m_reset, m_signup, m_token, tk_attempts, suVars, auVars>>

\* browser_manager.init_browser(user_agent)
MainBrowser ==
    /\ m_pc = "browser"
    /\ m_browser' = "running"
    /\ m_pc' = "email_handler"
    /\ UNCHANGED <<m_env, m_ver, m_choice, m_exit, m_cfg, m_killed, m_probe, m_ids,
                   m_reset, m_signup, m_token, tk_attempts, suVars, auVars>>

\* init_browser raises: except, then finally
MainBrowserRaises ==
    /\ m_pc = "browser"
    /\ m_pc' = "finally"
    /\ UNCHANGED <<m_env, m_ver, m_choice, m_exit, m_cfg, m_killed, m_probe, m_browser,
                   m_ids, m_reset, m_signup, m_token, tk_attempts, suVars, auVars>>

\* EmailVerificationHandler() and EmailGenerator() construct Config(); with
\* valid settings the login page is opened and sign_up_account is called,
\* otherwise Config raises and the except clause logs it
MainEmailHandler ==
    /\ m_pc = "email_handler"
    /\ IF ConfigOutcome(m_env) = "ok"
       THEN m_cfg' = TRUE /\ m_pc' = "sign_up" /\ su_pc' = "form"
       ELSE m_cfg' = FALSE /\ m_pc' = "finally" /\ su_pc' = su_pc
    /\ UNCHANGED <<m_env, m_ver, m_choice, m_exit, m_killed, m_probe, m_browser, m_ids,
                   m_reset, m_signup, m_token, tk_attempts,
                   su_polls, su_pollfails, ht_retry, ht_failed, m_late, auVars>>

\* sign_up_account ends: `return r`, or an exception leaves it ("raised")
SignUpReturns(r) ==
    /\ m_signup' = r
    /\ su_pc' = "returned"
    /\ m_pc' = IF r = "True" THEN "token" ELSE "finally"
    /\ UNCHANGED <<m_env, m_ver, m_choice, m_exit, m_cfg, m_killed, m_probe, m_browser,
                   m_ids, m_reset, m_token, tk_attempts, auVars>>

SignUpStays ==
    UNCHANGED <<mnVars, auVars>>

\* lines 206-224: the sign-up form is filled in and submitted
SuForm ==
    /\ m_pc = "sign_up" /\ su_pc = "form"
    /\ su_pc' = "ht1" /\ ht_retry' = 0
    /\ SignUpStays
    /\ UNCHANGED <<su_polls, su_pollfails, ht_failed, m_late>>

\* lines 226-228: an exception while filling the form
SuFormFails ==
    /\ m_pc = "sign_up" /\ su_pc = "form"
    /\ SignUpReturns("False")
    /\ UNCHANGED <<su_polls, su_pollfails, ht_retry, ht_failed, m_late>>

\* the statement after each of the three handle_turnstile(tab) calls
AfterTurnstile(site) ==
    CASE site = "ht1" -> "password"
      [] site = "ht2" -> "verify"
      [] site = "ht3" -> "settings"

InTurnstile == m_pc = "sign_up" /\ su_pc \in {"ht1", "ht2", "ht3"}

\* handle_turnstile: an attempt after which check_verification_success finds
\* a marker (after the click, or at line 142): return True
HtVerified ==
    /\ InTurnstile /\ ht_retry < TurnstileRetries
    /\ \E present \in SUBSET Markers : check_verification_success(present) # None
    /\ ht_retry' = ht_retry + 1
    /\ su_pc' = AfterTurnstile(su_pc)
    /\ SignUpStays
    /\ UNCHANGED <<su_polls, su_pollfails, ht_failed, m_late>>

\* handle_turnstile: an attempt with no marker on the page; sleep, next attempt
HtNotYet ==
    /\ InTurnstile /\ ht_retry < TurnstileRetries
    /\ check_verification_success({}) = None
    /\ ht_retry' = ht_retry + 1
    /\ SignUpStays
    /\ UNCHANGED <<su_pc, su_polls, su_pollfails, ht_failed, m_late>>

\* handle_turnstile: max_retries attempts without a marker: return False,
\* which sign_up_account does not look at
HtExhausted ==
    /\ InTurnstile /\ ht_retry >= TurnstileRetries
    /\ ht_failed' = ht_failed \cup {su_pc}
    /\ su_pc' = AfterTurnstile(su_pc)
    /\ SignUpStays
    /\ UNCHANGED <<su_polls, su_pollfails, ht_retry, m_late>>

\* handle_turnstile: check_verification_success raises at line 142, the outer
\* except raises TurnstileError, which leaves sign_up_account
HtRaises ==
    /\ InTurnstile /\ ht_retry < TurnstileRetries
    /\ SignUpReturns("raised")
    /\ UNCHANGED <<su_polls, su_pollfails, ht_retry, ht_failed, m_late>>

\* lines 232-240: the password is entered when its field is shown
SuPassword ==
    /\ m_pc = "sign_up" /\ su_pc = "password"
    /\ \E shown \in BOOLEAN : m_late' = IF shown THEN Late("password") ELSE m_late
    /\ su_pc' = "taken"
    /\ SignUpStays
    /\ UNCHANGED <<su_polls, su_pollfails, ht_retry, ht_failed>>

\* lines 242-248: an exception while entering the password, or the page says
\* "This email is not available."
SuPasswordFails ==
    /\ m_pc = "sign_up" /\ su_pc \in {"password", "taken"}
    /\ SignUpReturns("False")
    /\ UNCHANGED <<su_polls, su_pollfails, ht_retry, ht_failed, m_late>>

\* line 250: the second handle_turnstile call
SuEmailFree ==
    /\ m_pc = "sign_up" /\ su_pc = "taken"
    /\ su_pc' = "ht2" /\ ht_retry' = 0
    /\ SignUpStays
    /\ UNCHANGED <<su_polls, su_pollfails, ht_failed, m_late>>

\* `while True`: "Account Settings" is shown: break
SuAccountSettings ==
    /\ m_pc = "sign_up" /\ su_pc = "verify"
    /\ su_pc' = "ht3" /\ ht_retry' = 0
    /\ SignUpStays
    /\ UNCHANGED <<su_polls, su_pollfails, ht_failed, m_late>>

\* `while True`: neither element is shown, or tab.ele raises: next iteration
SuSpin ==
    /\ m_pc = "sign_up" /\ su_pc = "verify"
    /\ SignUpStays
    /\ UNCHANGED suVars

\* `while True`: "@data-index=0" is shown and get_verification_code returns:
\* `if not code: return False`, else the digits are entered and the loop left
SuPollCode ==
    /\ m_pc = "sign_up" /\ su_pc = "verify" /\ su_polls < MaxPollCalls
    /\ su_polls' = su_polls + 1
    /\ \E code \in get_verification_code_outcomes \ {Raised} :
          IF ~Truthy(code)
          THEN SignUpReturns("False") /\ UNCHANGED <<ht_retry, m_late>>
          ELSE /\ m_late' = Late("code")
               /\ su_pc' = "ht3" /\ ht_retry' = 0
               /\ SignUpStays
    /\ UNCHANGED <<su_pollfails, ht_failed>>

\* `while True`: get_verification_code raises; the except clause at line 273
\* logs the error and the loop goes on
SuPollRaises ==
    /\ m_pc = "sign_up" /\ su_pc = "verify" /\ su_polls < MaxPollCalls
    /\ Raised \in get_verification_code_outcomes
    /\ su_polls' = su_polls + 1
    /\ su_pollfails' = su_pollfails + 1
    /\ SignUpStays
    /\ UNCHANGED <<su_pc, ht_retry, ht_failed, m_late>>

\* `while True`: entering a digit raises; the except clause logs the error
\* and the loop goes on
SuCodeEntryRaises ==
    /\ m_pc = "sign_up" /\ su_pc = "verify" /\ su_polls < MaxPollCalls
    /\ su_polls' = su_polls + 1
    /\ m_late' = Late("code")
    /\ SignUpStays
    /\ UNCHANGED <<su_pc, su_pollfails, ht_retry, ht_failed>>

\* lines 277-305: the settings page is read, return True
SuSettings ==
    /\ m_pc = "sign_up" /\ su_pc = "settings"
    /\ SignUpReturns("True")
    /\ UNCHANGED <<su_polls, su_pollfails, ht_retry, ht_failed, m_late>>

\* get_cursor_session_token: the cookie is there; the part after the first
\* "%3A%3A" is returned, which may be empty
TokenFound ==
    /\ m_pc = "token" /\ tk_attempts < TokenAttempts
    /\ \E t \in {"t1", ""} : m_token' = Str(t)
    /\ m_pc' = IF TokenOK(m_token') THEN "update_auth" ELSE "finally"
    /\ m_late' = Late("token")
    /\ UNCHANGED <<m_env, m_ver, m_choice, m_exit, m_cfg, m_killed, m_probe, m_browser,
                   m_ids, m_reset, m_signup, tk_attempts,
                   su_pc, su_polls, su_pollfails, ht_retry, ht_failed, auVars>>

\* get_cursor_session_token: no such cookie, or reading raises: attempts += 1
TokenMissing ==
    /\ m_pc = "token" /\ tk_attempts < TokenAttempts
    /\ tk_attempts' = tk_attempts + 1
    /\ m_late' = Late("token")
    /\ UNCHANGED <<m_pc, m_env, m_ver, m_choice, m_exit, m_cfg, m_killed, m_probe,
                   m_browser, m_ids, m_reset, m_signup, m_token,
                   su_pc, su_polls, su_pollfails, ht_retry, ht_failed, auVars>>

\* get_cursor_session_token: max_attempts reads without the cookie: return None
TokenGivesUp ==
    /\ m_pc = "token" /\ tk_attempts >= TokenAttempts
    /\ m_token' = None
    /\ m_pc' = IF TokenOK(m_token') THEN "update_auth" ELSE "finally"
    /\ UNCHANGED <<m_env, m_ver, m_choice, m_exit, m_cfg, m_killed, m_probe, m_browser,
                   m_ids, m_reset, m_signup, tk_attempts, suVars, auVars>>

\* update_cursor_auth(email=account, access_token=token, refresh_token=token)
MainUpdateAuth ==
    /\ m_pc = "update_auth"
    /\ au_email' = Str("e1") /\ au_access' = m_token /\ au_refresh' = m_token
    /\ au_pc' = "connect" /\ au_i' = 1 /\ au_ret' = "none"
    /\ db0' = db /\ au_view' = db
    /\ m_pc' = "in_update_auth"
    /\ m_late' = Late("auth")
    /\ UNCHANGED <<db, m_env, m_ver, m_choice, m_exit, m_cfg, m_killed, m_probe, m_browser,
                   m_ids, m_reset, m_signup, m_token, tk_attempts,
                   su_pc, su_polls, su_pollfails, ht_retry, ht_failed>>

\* update_cursor_auth has returned (its result is not looked at):
\* reset_machine_id(greater_than_0_45), print_end_message
MainReset ==
    /\ m_pc = "in_update_auth" /\ au_pc = "done"
    /\ ResetMachineId
    /\ m_late' = Late("reset")
    /\ m_pc' = "finally"
    /\ UNCHANGED <<m_env, m_ver, m_choice, m_exit, m_cfg, m_killed, m_probe, m_browser,
                   m_signup, m_token, tk_attempts,
                   su_pc, su_polls, su_pollfails, ht_retry, ht_failed, auVars>>

\* finally: browser_manager.quit() when it is set, then the closing prompt;
\* after Enter the process ends as it was about to (sys.exit(0), or the end
\* of the script); when the standard input is at its end input() raises
\* EOFError, which replaces a pending SystemExit: traceback and status 1
MainFinally ==
    /\ m_pc = "finally"
    /\ m_browser' = IF m_browser = "running" THEN "quit" ELSE m_browser
    /\ m_exit' \in {IF m_exit = "none" THEN "end" ELSE m_exit, "traceback"}
    /\ m_pc' = "ended"
    /\ UNCHANGED <<m_env, m_ver, m_choice, m_cfg, m_killed, m_probe, m_ids, m_reset,
                   m_signup, m_token, tk_attempts, suVars, auVars>>

----------------------------------------------------------------------------
(* handle_turnstile on its own (cursor_pro_keep_alive.py)                  *)

\* largest max_retries a call of handle_turnstile is made with
MaxTurnstile == 2

\* what tab.ele can find on a page: the markers, the Turnstile widget, the
\* text of the "not available" notice
PageElements == Markers \cup {"cf-turnstile", "not-available"}

\* the mutant: the loop is left one attempt late
TurnstileLoop_OneMore(count, max) == count <= max

\* `while retry_count < max_retries`
TurnstileLoop(count, max) == count < max

TurnstileIdle ==
    /\ tn_max = 0 /\ tn_count = 0 /\ tn_pc = "idle"
    /\ tn_page = {} /\ tn_status = None /\ tn_ret = "none"

TurnstileInit ==
    /\ tn_max \in 0..MaxTurnstile /\ tn_count = 0 /\ tn_pc = "loop"
    /\ tn_page = {} /\ tn_status = None /\ tn_ret = "none"

\* lines 109-120: retry_count += 1, then the widget is looked for: it is found
\* and clicked, or it is not found, or locating or clicking it raises, which
\* the inner except clause logs
TnLocate ==
    /\ tn_pc = "loop" /\ TurnstileLoop(tn_count, tn_max)
    /\ tn_count' = tn_count + 1
    /\ \E clicked \in BOOLEAN : tn_pc' = IF clicked THEN "clicked" ELSE "after"
    /\ UNCHANGED <<tn_max, tn_page, tn_status, tn_ret>>

\* line 133: check_verification_success after the click; return True on a marker
TnClickedCheck ==
    /\ tn_pc = "clicked"
    /\ \E present \in SUBSET PageElements :
          /\ tn_page' = present
          /\ tn_status' = check_verification_success(present)
    /\ IF tn_status' # None
       THEN tn_pc' = "done" /\ tn_ret' = "True"
       ELSE tn_pc' = "after" /\ tn_ret' = tn_ret
    /\ UNCHANGED <<tn_max, tn_count>>

\* line 133: tab.ele raises inside the inner try; the except clause logs it
TnClickedCheckRaises ==
    /\ tn_pc = "clicked"
    /\ tn_pc' = "after"
    /\ UNCHANGED <<tn_max, tn_count, tn_page, tn_status, tn_ret>>

\* line 142: check_verification_success after the attempt; return True on a
\* marker, else sleep and go to the next attempt
TnAfterCheck ==
    /\ tn_pc = "after"
    /\ \E present \in SUBSET PageElements :
          /\ tn_page' = present
          /\ tn_status' = check_verification_success(present)
    /\ IF tn_status' # None
       THEN tn_pc' = "done" /\ tn_ret' = "True"
       ELSE tn_pc' = "loop" /\ tn_ret' = tn_ret
    /\ UNCHANGED <<tn_max, tn_count>>

\* line 142: tab.ele raises outside the inner try: raise TurnstileError
TnAfterCheckRaises ==
    /\ tn_pc = "after"
    /\ tn_pc' = "done" /\ tn_ret' = "TurnstileError"
    /\ UNCHANGED <<tn_max, tn_count, tn_page, tn_status>>

\* lines 148-154: the loop is left without a marker: return False
TnExhausted ==
    /\ tn_pc = "loop" /\ ~TurnstileLoop(tn_count, tn_max)
    /\ tn_pc' = "done" /\ tn_ret' = "False"
    /\ UNCHANGED <<tn_max, tn_count, tn_page, tn_status>>

----------------------------------------------------------------------------
(* The patcher (patch_cursor_get_machine_id.py)                            *)

\* main.js is a sequence of chunks: other code, or the body of one of the two
\* functions, `return p1??p2??...` with its operands p1, p2, ...
OtherCode == [fn |-> "other", parts |-> <<>>]
MachineIdFn(parts) == [fn |-> "getMachineId", parts |-> parts]
MacMachineIdFn(parts) == [fn |-> "getMacMachineId", parts |-> parts]

\* a file that does not exist
Missing == <<[fn |-> "<missing>", parts |-> <<>>]>>

Operands == {<<"b">>, <<"a", "b">>, <<"a", "b", "c">>}
MainJsContents == {<<OtherCode, MachineIdFn(p), MacMachineIdFn(q)>> : p, q \in Operands}

\* re.sub of one pattern: `return [^?]+??([^}]+)}` becomes `return \1}`
PatchChunk(c, fn) ==
    IF c.fn = fn /\ Len(c.parts) >= 2 THEN [c EXCEPT !.parts = Tail(c.parts)] ELSE c

\* lines 164-170: both patterns, one after the other
Patch(content) ==
    [i \in 1..Len(content) |-> PatchChunk(PatchChunk(content[i], "getMachineId"), "getMacMachineId")]

\* what an interrupted copy leaves of `content`
Partial(content) == {SubSeq(content, 1, n) : n \in 0..(Len(content) - 1)}

\* a version text is the sequence of the pieces that split(".") gives, each a
\* sequence of characters; "" is one empty piece
EmptyText == <<<<>>>>
Newline == "\n"
MinVersion == <<<<"0">>, <<"4", "5">>, <<"0">>>>
Unreadable == <<>>
PkgVersions ==
    {<<<<"0">>, <<"4", "4">>, <<"9">>>>, MinVersion, <<<<"0">>, <<"4", "6">>, <<"2">>>>,
     <<<<"1">>, <<"0">>, <<"0">>>>, <<<<"0">>, <<"4", "5">>>>}

\* \d+
AllDigits(c) == Len(c) > 0 /\ \A i \in 1..Len(c) : IsDigit(c[i])

\* re.match(r"^\d+\.\d+\.\d+$", version): $ also matches before a newline
\* that ends the text
VersionPattern(text) ==
    /\ Len(text) = 3 /\ AllDigits(text[1]) /\ AllDigits(text[2])
    /\ \/ AllDigits(text[3])
       \/ /\ text[3] # <<>> /\ text[3][Len(text[3])] = Newline
          /\ AllDigits(SubSeq(text[3], 1, Len(text[3]) - 1))

\* int(piece): white space around the digits is dropped; the value, or -1
\* for ValueError
RECURSIVE int(_)
int(c) ==
    IF c # <<>> /\ c[1] = Newline THEN int(Tail(c))
    ELSE IF c # <<>> /\ c[Len(c)] = Newline THEN int(SubSeq(c, 1, Len(c) - 1))
    ELSE IF ~AllDigits(c) THEN -1
    ELSE IF Len(c) = 1 THEN CHOOSE n \in 0..9 : ToString(n) = c[1]
    ELSE 10 * int(SubSeq(c, 1, Len(c) - 1)) + int(<<c[Len(c)]>>)

\* parse_version: tuple(map(int, ver.split(".")))
parse_version(ver) == [i \in 1..Len(ver) |-> int(ver[i])]
ParseRaises(ver) == \E i \in 1..Len(ver) : int(ver[i]) = -1

\* a < b of two tuples of integers, of any lengths
TupleLess(a, b) ==
    \/ \E i \in 1..Len(a) :
          i <= Len(b) /\ a[i] < b[i] /\ \A j \in 1..(i - 1) : a[j] = b[j]
    \/ Len(a) < Len(b) /\ \A j \in 1..Len(a) : a[j] = b[j]

\* the mutant: the minimum is not compared
version_check_NoMinimum(version, min_version, max_version) == VersionPattern(version)

\* version_check(version, min_version, max_version); an exception of
\* parse_version is caught and gives False
version_check(version, min_version, max_version) ==
    IF ~VersionPattern(version) THEN FALSE
    ELSE IF min_version # EmptyText /\ ParseRaises(min_version) THEN FALSE
    ELSE IF min_version # EmptyText
            /\ TupleLess(parse_version(version), parse_version(min_version)) THEN FALSE
    ELSE IF max_version # EmptyText /\ ParseRaises(max_version) THEN FALSE
    ELSE IF max_version # EmptyText
            /\ TupleLess(parse_version(max_version), parse_version(version)) THEN FALSE
    ELSE TRUE

PatchIdle ==
    /\ pt_pc = "idle" /\ pt_ver = Unreadable
    /\ pt_main = Missing /\ pt_main0 = Missing /\ pt_bak = Missing
    /\ pt_old = Missing /\ pt_tmp = Missing
    /\ pt_passed = {} /\ pt_exit = "none" /\ mj_ret = "none"
    /\ pt_runs = 0 /\ pt_restore = FALSE /\ pt_backups = 0 /\ rb_ret = "none"
    /\ pt_orig = Missing

PatchInit ==
    /\ pt_pc = "paths" /\ pt_ver \in PkgVersions \cup {Unreadable}
    /\ pt_main \in MainJsContents /\ pt_main0 = pt_main
    /\ pt_bak \in {Missing, <<OtherCode>>}
    /\ pt_old = Missing /\ pt_tmp = Missing
    /\ pt_passed = {} /\ pt_exit = "none" /\ mj_ret = "none"
    /\ pt_runs = 1 /\ pt_restore = FALSE /\ pt_backups = 0 /\ rb_ret = "none"
    /\ pt_orig = Missing

\* sys.exit(1)
PtExit1 == pt_pc' = "done" /\ pt_exit' = "1"

\* get_cursor_paths raises OSError, or check_system_requirements is False
PtRequirementsFail ==
    /\ pt_pc = "paths"
    /\ PtExit1
    /\ UNCHANGED <<prVars, pt_ver, pt_main, pt_main0, pt_bak, pt_old, pt_tmp, pt_passed, mj_ret>>

\* both files exist and are writable
PtRequirementsOK ==
    /\ pt_pc = "paths"
    /\ pt_passed' = pt_passed \cup {"req"}
    /\ pt_pc' = IF pt_restore THEN "restore" ELSE "version"
    /\ UNCHANGED <<prVars, pt_ver, pt_main, pt_main0, pt_bak, pt_old, pt_tmp, pt_exit, mj_ret>>

\* lines 270-281: package.json cannot be read, or version_check is False
PtVersionFail ==
    /\ pt_pc = "version"
    /\ pt_ver = Unreadable \/ ~version_check(pt_ver, MinVersion, EmptyText)
    /\ PtExit1
    /\ UNCHANGED <<prVars, pt_ver, pt_main, pt_main0, pt_bak, pt_old, pt_tmp, pt_passed, mj_ret>>

PtVersionOK ==
    /\ pt_pc = "version"
    /\ pt_ver # Unreadable /\ version_check(pt_ver, MinVersion, EmptyText)
    /\ pt_passed' = pt_passed \cup {"ver"}
    /\ pt_pc' = "backup"
    /\ UNCHANGED <<prVars, pt_ver, pt_main, pt_main0, pt_bak, pt_old, pt_tmp, pt_exit, mj_ret>>

\* backup_files: shutil.copy2(main_path, main_path + ".bak")
PtBackup ==
    /\ pt_pc = "backup"
    /\ pt_bak' = pt_main
    /\ pt_backups' = pt_backups + 1
    /\ pt_orig' = IF pt_backups = 0 THEN pt_main ELSE pt_orig
    /\ pt_passed' = pt_passed \cup {"bak"}
    /\ pt_pc' = "modify"
    /\ UNCHANGED <<pt_runs, pt_restore, rb_ret, pt_ver, pt_main, pt_main0, pt_old, pt_tmp,
                   pt_exit, mj_ret>>

\* backup_files: the copy raises, before or while main.js.bak is written
PtBackupFails ==
    /\ pt_pc = "backup"
    /\ pt_bak' \in {pt_bak} \cup Partial(pt_main)
    /\ PtExit1
    /\ UNCHANGED <<prVars, pt_ver, pt_main, pt_main0, pt_old, pt_tmp, pt_passed, mj_ret>>

\* modify_main_js returns False: `if not modify_main_js(main_path): sys.exit(1)`
MjReturnsFalse == mj_ret' = "False" /\ PtExit1

\* os.stat(main_path) raises: tmp_path is not set, nothing to unlink
MjStatFails ==
    /\ pt_pc = "modify"
    /\ MjReturnsFalse
    /\ UNCHANGED <<prVars, pt_ver, pt_main, pt_main0, pt_bak, pt_old, pt_tmp, pt_passed>>

\* lines 159-173: main.js is read, patched and written to the temporary file
MjWriteTmp ==
    /\ pt_pc = "modify"
    /\ pt_tmp' = Patch(pt_main)
    /\ pt_pc' = "copy_old"
    /\ UNCHANGED <<prVars, pt_ver, pt_main, pt_main0, pt_bak, pt_old, pt_passed, pt_exit, mj_ret>>

\* lines 159-172 raise: the temporary file cannot be created, or main.js cannot
\* be read, or the write fails; tmp_path is not set yet, so the except clause
\* leaves the temporary file where it is
MjWriteTmpFails ==
    /\ pt_pc = "modify"
    /\ pt_tmp' \in {Missing} \cup Partial(Patch(pt_main))
    /\ MjReturnsFalse
    /\ UNCHANGED <<prVars, pt_ver, pt_main, pt_main0, pt_bak, pt_old, pt_passed>>

\* shutil.copy2(main_path, main_path + ".old")
MjCopyOld ==
    /\ pt_pc = "copy_old"
    /\ pt_old' = pt_main
    /\ pt_pc' = "move"
    /\ UNCHANGED <<prVars, pt_ver, pt_main, pt_main0, pt_bak, pt_tmp, pt_passed, pt_exit, mj_ret>>

\* the copy to main.js.old raises; the except clause unlinks the temporary file
MjCopyOldFails ==
    /\ pt_pc = "copy_old"
    /\ pt_old' \in {pt_old} \cup Partial(pt_main)
    /\ pt_tmp' = Missing
    /\ MjReturnsFalse
    /\ UNCHANGED <<prVars, pt_ver, pt_main, pt_main0, pt_bak, pt_passed>>

\* shutil.move: os.rename succeeds (same file system, POSIX)
MjMoveRename ==
    /\ pt_pc = "move"
    /\ pt_main' = pt_tmp
    /\ pt_tmp' = Missing
    /\ pt_pc' = "chmod"
    /\ UNCHANGED <<prVars, pt_ver, pt_main0, pt_bak, pt_old, pt_passed, pt_exit, mj_ret>>

\* shutil.move: os.rename raises OSError (the temporary directory is on
\* another file system, or the destination exists on Windows), so the file
\* is copied: main.js is opened for writing, which truncates it
MjMoveCopyStart ==
    /\ pt_pc = "move"
    /\ pt_main' = <<>>
    /\ pt_pc' = "copying"
    /\ UNCHANGED <<prVars, pt_ver, pt_main0, pt_bak, pt_old, pt_tmp, pt_passed, pt_exit, mj_ret>>

\* shutil.move: neither rename nor opening main.js works; unlink, return False
MjMoveFails ==
    /\ pt_pc = "move"
    /\ pt_tmp' = Missing
    /\ MjReturnsFalse
    /\ UNCHANGED <<prVars, pt_ver, pt_main, pt_main0, pt_bak, pt_old, pt_passed>>

\* the copy writes the next part of the temporary file to main.js
MjMoveCopyWrite ==
    /\ pt_pc = "copying" /\ Len(pt_main) < Len(pt_tmp)
    /\ pt_main' = SubSeq(pt_tmp, 1, Len(pt_main) + 1)
    /\ UNCHANGED <<prVars, pt_pc, pt_ver, pt_main0, pt_bak, pt_old, pt_tmp, pt_passed, pt_exit, mj_ret>>

\* the copy is complete: the temporary file is unlinked by shutil.move
MjMoveCopyDone ==
    /\ pt_pc = "copying" /\ Len(pt_main) = Len(pt_tmp)
    /\ pt_tmp' = Missing
    /\ pt_pc' = "chmod"
    /\ UNCHANGED <<prVars, pt_ver, pt_main, pt_main0, pt_bak, pt_old, pt_passed, pt_exit, mj_ret>>

\* a write of the copy raises (disk full, I/O error): the except clause
\* unlinks the temporary file and returns False
MjMoveCopyFails ==
    /\ pt_pc = "copying" /\ Len(pt_main) < Len(pt_tmp)
    /\ pt_tmp' = Missing
    /\ MjReturnsFalse
    /\ UNCHANGED <<prVars, pt_ver, pt_main, pt_main0, pt_bak, pt_old, pt_passed>>

\* chmod and chown succeed: return True, the run ends with status 0
MjChmod ==
    /\ pt_pc = "chmod"
    /\ mj_ret' = "True"
    /\ pt_pc' = "done" /\ pt_exit' = "0"
    /\ UNCHANGED <<prVars, pt_ver, pt_main, pt_main0, pt_bak, pt_old, pt_tmp, pt_passed>>

\* chmod or chown raises: the except clause calls os.unlink(tmp_path) on the
\* file that was moved away, FileNotFoundError leaves modify_main_js and is
\* caught at line 296: sys.exit(1)
MjChmodFails ==
    /\ pt_pc = "chmod"
    /\ mj_ret' = "raised"
    /\ PtExit1
    /\ UNCHANGED <<prVars, pt_ver, pt_main, pt_main0, pt_bak, pt_old, pt_tmp, pt_passed>>

\* restore mode: `return` after restore_backup_files, whatever it answered
PtRestoreReturns(r) ==
    /\ pt_pc = "restore"
    /\ rb_ret' = r
    /\ pt_pc' = "done" /\ pt_exit' = "0"
    /\ UNCHANGED <<pt_runs, pt_restore, pt_backups, pt_orig, pt_ver, pt_main0, pt_bak, pt_old,
                   pt_tmp, pt_passed, mj_ret>>

\* restore_backup_files: shutil.copy2(main_path + ".bak", main_path)
PtRestore == pt_bak # Missing /\ pt_main' = pt_bak /\ PtRestoreReturns("True")

\* restore_backup_files: there is no main.js.bak
PtRestoreNoBackup == pt_bak = Missing /\ pt_main' = pt_main /\ PtRestoreReturns("False")

\* restore_backup_files: the copy raises, before or while main.js is written
PtRestoreFails ==
    /\ pt_bak # Missing /\ pt_main' \in {pt_main} \cup Partial(pt_bak)
    /\ PtRestoreReturns("False")

\* largest number of runs of the script that are followed
MaxRuns == 3

\* the script is run once more, to patch or with restore_mode=True, on the
\* files the earlier runs left; its temporary file has a new name
PtRunAgain ==
    /\ pt_pc = "done" /\ pt_runs < MaxRuns
    /\ pt_runs' = pt_runs + 1
    /\ pt_restore' \in BOOLEAN
    /\ pt_pc' = "paths" /\ pt_passed' = {} /\ pt_exit' = "none"
    /\ mj_ret' = "none" /\ rb_ret' = "none" /\ pt_tmp' = Missing
    /\ UNCHANGED <<pt_backups, pt_orig, pt_ver, pt_main, pt_main0, pt_bak, pt_old>>

----------------------------------------------------------------------------
(* MachineIDResetter.reset_machine_ids (reset_machine.py)                  *)

DevDeviceId == "telemetry.devDeviceId"
MacMachineId == "telemetry.macMachineId"
MachineId == "telemetry.machineId"
SqmId == "telemetry.sqmId"
\* the keys of generate_new_ids, in the order of its dict
NewIdKeys == <<DevDeviceId, MacMachineId, MachineId, SqmId>>
TelemetryKeys == {NewIdKeys[i] : i \in 1..Len(NewIdKeys)}
StoreKeys == TelemetryKeys \cup {"other.a", "other.b"}
StoreValues == {"v1", "v2"}
NewValues == {"n1", "n2"}

\* most members of the JSON object in storage.json
MaxMembers == 2

\* storage.json: a JSON object with its members in file order (a key may
\* occur more than once), or no file, or a file that holds something else
JsonObject(members) == [kind |-> "object", members |-> members]
NoFile == [kind |-> "missing", members |-> <<>>]
NotAnObject == [kind |-> "list", members |-> <<>>]
Damaged == [kind |-> "invalid", members |-> <<>>]
MemberLists == UNION {[1..n -> StoreKeys \X StoreValues] : n \in 0..MaxMembers}
StorageFiles == {JsonObject(ms) : ms \in MemberLists} \cup {NoFile, NotAnObject, Damaged}

\* d[k] = v on a dict kept as its items in insertion order
DictSet(d, k, v) ==
    IF \E i \in 1..Len(d) : d[i][1] = k
    THEN [i \in 1..Len(d) |-> IF d[i][1] = k THEN <<k, v>> ELSE d[i]]
    ELSE Append(d, <<k, v>>)

\* json.load: the members are stored one after the other
RECURSIVE json_load(_)
json_load(members) ==
    IF members = <<>> THEN <<>>
    ELSE LET n == Len(members)
         IN  DictSet(json_load(SubSeq(members, 1, n - 1)), members[n][1], members[n][2])

\* the mutant: config = new_ids
dict_update_Replace(d, new) == [i \in 1..Len(NewIdKeys) |-> <<NewIdKeys[i], new[NewIdKeys[i]]>>]

\* config.update(new_ids)
dict_update(d, new) ==
    LET set(acc, i) == DictSet(acc, NewIdKeys[i], new[NewIdKeys[i]])
    IN  set(set(set(set(d, 1), 2), 3), 4)

\* json.dump(config, f, indent=4): one member per item
json_dump(d) == JsonObject(d)

ResetIdle ==
    /\ rs_file = NoFile /\ rs_file0 = NoFile /\ rs_cfg = <<>>
    /\ rs_new = [k \in TelemetryKeys |-> "n1"] /\ rs_pc = "idle" /\ rs_ret = "none"

ResetInit ==
    /\ rs_file \in StorageFiles /\ rs_file0 = rs_file /\ rs_cfg = <<>>
    /\ rs_new = [k \in TelemetryKeys |-> "n1"] /\ rs_pc = "start" /\ rs_ret = "none"

\* an except clause, or one of the two early returns: return False
RsReturnsFalse == rs_pc' = "done" /\ rs_ret' = "False"

\* lines 62-75: the file does not exist, or cannot be read and written
RsNoAccess ==
    /\ rs_pc = "start"
    /\ RsReturnsFalse
    /\ UNCHANGED <<rs_file, rs_file0, rs_cfg, rs_new>>

\* lines 78-79: config = json.load(f)
RsLoad ==
    /\ rs_pc = "start" /\ rs_file.kind = "object"
    /\ rs_cfg' = json_load(rs_file.members)
    /\ rs_pc' = "update"
    /\ UNCHANGED <<rs_file, rs_file0, rs_new, rs_ret>>

\* json.load raises, or it answers a list and config.update raises
RsLoadFails ==
    /\ rs_pc = "start" /\ rs_file.kind \in {"invalid", "list"}
    /\ RsReturnsFalse
    /\ UNCHANGED <<rs_file, rs_file0, rs_cfg, rs_new>>

\* lines 82-84: new_ids = self.generate_new_ids(); config.update(new_ids)
RsUpdate ==
    /\ rs_pc = "update"
    /\ rs_new' \in [TelemetryKeys -> NewValues]
    /\ rs_cfg' = dict_update(rs_cfg, rs_new')
    /\ rs_pc' = "write"
    /\ UNCHANGED <<rs_file, rs_file0, rs_ret>>

\* lines 87-88: the file is opened for writing and the dict dumped into it
RsWrite ==
    /\ rs_pc = "write"
    /\ rs_file' = json_dump(rs_cfg)
    /\ rs_pc' = "written"
    /\ UNCHANGED <<rs_file0, rs_cfg, rs_new, rs_ret>>

\* open(..., "w") raises and the file is as it was, or the dump raises after
\* the file was truncated
RsWriteFails ==
    /\ rs_pc = "write"
    /\ rs_file' \in {rs_file, Damaged}
    /\ RsReturnsFalse
    /\ UNCHANGED <<rs_file0, rs_cfg, rs_new>>

\* lines 90-95: the identifiers are printed, return True
RsReturnsTrue ==
    /\ rs_pc = "written"
    /\ rs_pc' = "done" /\ rs_ret' = "True"
    /\ UNCHANGED <<rs_file, rs_file0, rs_cfg, rs_new>>

\* a print after the write raises (a console that cannot encode the text)
RsPrintRaises ==
    /\ rs_pc = "written"
    /\ RsReturnsFalse
    /\ UNCHANGED <<rs_file, rs_file0, rs_cfg, rs_new>>

----------------------------------------------------------------------------
(* get_cursor_session_token on its own (cursor_pro_keep_alive.py)          *)

\* largest max_attempts a call is made with; most cookies tab.cookies() answers
MaxTokenReads == 2
MaxCookies == 2

TokenCookie == "WorkosCursorSessionToken"
\* a cookie value is a text made of these pieces; the delimiter "%3A%3A" is
\* two "%3A" in a row
Colon == "%3A"
CookieValues ==
    {<<"s">>,
     <<"s", Colon, "t">>,
     <<"s", Colon, Colon, "t">>,
     <<"s", Colon, Colon>>,
     <<Colon, Colon, Colon, "t">>,
     <<"s", Colon, Colon, "t", Colon, Colon, "u">>}
Cookies == {[name |-> TokenCookie, value |-> v] : v \in CookieValues}
               \cup {[name |-> "other", value |-> <<"s", Colon, Colon, "o">>]}
CookieJars == UNION {[1..n -> Cookies] : n \in 0..MaxCookies}

\* value.split("%3A%3A")
RECURSIVE Split(_)
Split(v) ==
    LET hits == {i \in 1..(Len(v) - 1) : v[i] = Colon /\ v[i + 1] = Colon}
    IN  IF hits = {} THEN <<v>>
        ELSE LET p == CHOOSE i \in hits : \A j \in hits : i <= j
             IN  <<SubSeq(v, 1, p - 1)>> \o Split(SubSeq(v, p + 2, Len(v)))

\* cookie["value"].split("%3A%3A")[1]
TokenOf(value) == Split(value)[2]

\* `for cookie in cookies: if cookie.get("name") == ...`: the positions of
\* the cookies with that name, and the first of them
NamedAt(jar) == {i \in 1..Len(jar) : jar[i].name = TokenCookie}
FirstNamed(jar) == jar[CHOOSE i \in NamedAt(jar) : \A j \in NamedAt(jar) : i <= j]

TokenIdle ==
    /\ ck_max = 0 /\ ck_attempts = 0 /\ ck_reads = 0
    /\ ck_jar = <<>> /\ ck_pc = "idle" /\ ck_ret = None

TokenInit ==
    /\ ck_max \in 0..MaxTokenReads /\ ck_attempts = 0 /\ ck_reads = 0
    /\ ck_jar = <<>> /\ ck_pc = "loop" /\ ck_ret = None

\* lines 174-183 and 185-190: attempts += 1, sleep unless it was the last one
CkFailedAttempt ==
    /\ ck_attempts' = ck_attempts + 1
    /\ UNCHANGED <<ck_max, ck_pc, ck_ret>>

\* the first cookie with the name has a value with the delimiter: return
CkFound ==
    /\ ck_pc = "loop" /\ ck_attempts < ck_max
    /\ ck_reads' = ck_reads + 1
    /\ \E jar \in CookieJars :
          /\ NamedAt(jar) # {} /\ Len(Split(FirstNamed(jar).value)) >= 2
          /\ ck_jar' = jar
          /\ ck_ret' = Str(TokenOf(FirstNamed(jar).value))
    /\ ck_pc' = "done"
    /\ UNCHANGED <<ck_max, ck_attempts>>

\* no cookie has the name
CkNotFound ==
    /\ ck_pc = "loop" /\ ck_attempts < ck_max
    /\ ck_reads' = ck_reads + 1
    /\ \E jar \in CookieJars : NamedAt(jar) = {} /\ ck_jar' = jar
    /\ CkFailedAttempt

\* the first cookie with the name has a value without the delimiter: [1]
\* raises IndexError, which the except clause logs
CkIndexError ==
    /\ ck_pc = "loop" /\ ck_attempts < ck_max
    /\ ck_reads' = ck_reads + 1
    /\ \E jar \in CookieJars :
          /\ NamedAt(jar) # {} /\ Len(Split(FirstNamed(jar).value)) < 2
          /\ ck_jar' = jar
    /\ CkFailedAttempt

\* tab.cookies() raises
CkReadRaises ==
    /\ ck_pc = "loop" /\ ck_attempts < ck_max
    /\ ck_reads' = ck_reads + 1
    /\ ck_jar' = <<>>
    /\ CkFailedAttempt

\* the loop is left: return None
CkGivesUp ==
    /\ ck_pc = "loop" /\ ck_attempts >= ck_max
    /\ ck_pc' = "done" /\ ck_ret' = None
    /\ UNCHANGED <<ck_max, ck_attempts, ck_reads, ck_jar>>

----------------------------------------------------------------------------
(* version_check on its own (patch_cursor_get_machine_id.py)               *)

\* most pieces of the version text of a call
MaxParts == 3

VersionPieces == {<<"9">>, <<"1", "0">>, <<"0">>, <<"x">>, <<>>, <<"0", Newline>>}
VersionTexts == UNION {[1..n -> VersionPieces] : n \in 1..MaxParts}
\* "", "0.9.0", "0.10.0", "0.9", "x.0.0", "0.10.0.0"
BoundTexts ==
    {EmptyText, <<<<"0">>, <<"9">>, <<"0">>>>, <<<<"0">>, <<"1", "0">>, <<"0">>>>,
     <<<<"0">>, <<"9">>>>, <<<<"x">>, <<"0">>, <<"0">>>>,
     <<<<"0">>, <<"1", "0">>, <<"0">>, <<"0">>>>}

VersionIdle ==
    /\ vc_version = EmptyText /\ vc_min = EmptyText /\ vc_max = EmptyText
    /\ vc_pc = "idle" /\ vc_ret = FALSE

VersionInit ==
    /\ vc_version \in VersionTexts /\ vc_min \in BoundTexts /\ vc_max \in BoundTexts
    /\ vc_pc = "call" /\ vc_ret = FALSE

VersionCheckReturns ==
    /\ vc_pc = "call"
    /\ vc_ret' = version_check(vc_version, vc_min, vc_max)
    /\ vc_pc' = "done"
    /\ UNCHANGED <<vc_version, vc_min, vc_max>>

----------------------------------------------------------------------------
(* Specifications                                                          *)

\* none of the functions followed on their own is running
UnitsIdle == TurnstileIdle /\ ConfigIdle /\ PatchIdle /\ ResetIdle /\ TokenIdle /\ VersionIdle

\* the state of the program parts a unit specification does not run
RestIdle == ExtractIdle /\ AuthIdle /\ PollIdle /\ MainIdle
restVars == <<exVars, auVars, poVars, mnVars, suVars>>

\* the extractor alone, on every text of ExtractTexts
InitExtract == ExtractInit /\ AuthIdle /\ PollIdle /\ MainIdle /\ UnitsIdle
NextExtract == ExtractStep /\ UNCHANGED <<auVars, poVars, mnVars, suVars, unitVars>>
SpecExtract == InitExtract /\ [][NextExtract]_vars

\* one call of update_auth, on every store and argument combination
InitAuth == AuthInit /\ ExtractIdle /\ PollIdle /\ MainIdle /\ UnitsIdle
NextAuth ==
    \/ AuthConnect /\ UNCHANGED <<exVars, poVars, mnVars, suVars, unitVars>>
    \/ AuthConnectError /\ UNCHANGED <<exVars, poVars, mnVars, suVars, unitVars>>
    \/ AuthUpsert /\ UNCHANGED <<exVars, poVars, mnVars, suVars, unitVars>>
    \/ AuthUpsertError /\ UNCHANGED <<exVars, poVars, mnVars, suVars, unitVars>>
    \/ AuthCommit /\ UNCHANGED <<exVars, poVars, mnVars, suVars, unitVars>>
    \/ AuthCommitError /\ UNCHANGED <<exVars, poVars, mnVars, suVars, unitVars>>
SpecAuth == InitAuth /\ [][NextAuth]_vars

\* one call of get_verification_code, in either mode, while mail arrives
InitPoll == PollInit /\ ExtractIdle /\ AuthIdle /\ MainIdle /\ UnitsIdle
NextPoll ==
    \/ MailArrives /\ UNCHANGED <<exVars, auVars, mnVars, suVars, unitVars>>
    \/ PollLoop /\ UNCHANGED <<exVars, auVars, mnVars, suVars, unitVars>>
    \/ PollExhausted /\ UNCHANGED <<exVars, auVars, mnVars, suVars, unitVars>>
    \/ GetLatestMailCodeRaises /\ UNCHANGED <<exVars, auVars, mnVars, suVars, unitVars>>
    \/ GetLatestMailCodeNoResult /\ UNCHANGED <<exVars, auVars, mnVars, suVars, unitVars>>
    \/ GetLatestMailCode /\ UNCHANGED <<exVars, auVars, mnVars, suVars, unitVars>>
    \/ CleanupDeleted /\ UNCHANGED <<exVars, auVars, mnVars, suVars, unitVars>>
    \/ CleanupRefused /\ UNCHANGED <<exVars, auVars, mnVars, suVars, unitVars>>
    \/ CleanupGivesUp /\ UNCHANGED <<exVars, auVars, mnVars, suVars, unitVars>>
    \/ CleanupRaises /\ UNCHANGED <<exVars, auVars, mnVars, suVars, unitVars>>
    \/ ImapTimeout /\ UNCHANGED <<exVars, auVars, mnVars, suVars, unitVars>>
    \/ ImapFails /\ UNCHANGED <<exVars, auVars, mnVars, suVars, unitVars>>
    \/ ImapEmpty /\ UNCHANGED <<exVars, auVars, mnVars, suVars, unitVars>>
    \/ ImapRead /\ UNCHANGED <<exVars, auVars, mnVars, suVars, unitVars>>
    \/ ImapDeleteRaises /\ UNCHANGED <<exVars, auVars, mnVars, suVars, unitVars>>
SpecPoll == InitPoll /\ [][NextPoll]_vars

\* one run of the program, from check_cursor_version to the closing prompt
InitMain == MainInit /\ MainAuthInit /\ ExtractIdle /\ PollIdle /\ UnitsIdle
NextMain ==
    \/ MainCheckVersion /\ UNCHANGED <<exVars, poVars, unitVars>>
    \/ MainCheckVersionRaises /\ UNCHANGED <<exVars, poVars, unitVars>>
    \/ MainExitCursor /\ UNCHANGED <<exVars, poVars, unitVars>>
    \/ MainMenuInvalid /\ UNCHANGED <<exVars, poVars, unitVars>>
    \/ MainMenuEOF /\ UNCHANGED <<exVars, poVars, unitVars>>
    \/ MainMenuChoice /\ UNCHANGED <<exVars, poVars, unitVars>>
    \/ MainResetOnly /\ UNCHANGED <<exVars, poVars, unitVars>>
    \/ MainUserAgent /\ UNCHANGED <<exVars, poVars, unitVars>>
    \/ MainBrowser /\ UNCHANGED <<exVars, poVars, unitVars>>
    \/ MainBrowserRaises /\ UNCHANGED <<exVars, poVars, unitVars>>
    \/ MainEmailHandler /\ UNCHANGED <<exVars, poVars, unitVars>>
    \/ SuForm /\ UNCHANGED <<exVars, poVars, unitVars>>
    \/ SuFormFails /\ UNCHANGED <<exVars, poVars, unitVars>>
    \/ HtVerified /\ UNCHANGED <<exVars, poVars, unitVars>>
    \/ HtNotYet /\ UNCHANGED <<exVars, poVars, unitVars>>
    \/ HtExhausted /\ UNCHANGED <<exVars, poVars, unitVars>>
    \/ HtRaises /\ UNCHANGED <<exVars, poVars, unitVars>>
    \/ SuPassword /\ UNCHANGED <<exVars, poVars, unitVars>>
    \/ SuPasswordFails /\ UNCHANGED <<exVars, poVars, unitVars>>
    \/ SuEmailFree /\ UNCHANGED <<exVars, poVars, unitVars>>
    \/ SuAccountSettings /\ UNCHANGED <<exVars, poVars, unitVars>>
    \/ SuSpin /\ UNCHANGED <<exVars, poVars, unitVars>>
    \/ SuPollCode /\ UNCHANGED <<exVars, poVars, unitVars>>
    \/ SuPollRaises /\ UNCHANGED <<exVars, poVars, unitVars>>
    \/ SuCodeEntryRaises /\ UNCHANGED <<exVars, poVars, unitVars>>
    \/ SuSettings /\ UNCHANGED <<exVars, poVars, unitVars>>
    \/ TokenFound /\ UNCHANGED <<exVars, poVars, unitVars>>
    \/ TokenMissing /\ UNCHANGED <<exVars, poVars, unitVars>>
    \/ TokenGivesUp /\ UNCHANGED <<exVars, poVars, unitVars>>
    \/ MainUpdateAuth /\ UNCHANGED <<exVars, poVars, unitVars>>
    \/ AuthConnect /\ UNCHANGED <<exVars, poVars, mnVars, suVars, unitVars>>
    \/ AuthConnectError /\ UNCHANGED <<exVars, poVars, mnVars, suVars, unitVars>>
    \/ AuthUpsert /\ UNCHANGED <<exVars, poVars, mnVars, suVars, unitVars>>
    \/ AuthUpsertError /\ UNCHANGED <<exVars, poVars, mnVars, suVars, unitVars>>
    \/ AuthCommit /\ UNCHANGED <<exVars, poVars, mnVars, suVars, unitVars>>
    \/ AuthCommitError /\ UNCHANGED <<exVars, poVars, mnVars, suVars, unitVars>>
    \/ MainReset /\ UNCHANGED <<exVars, poVars, unitVars>>
    \/ MainFinally /\ UNCHANGED <<exVars, poVars, unitVars>>
SpecMain == InitMain /\ [][NextMain]_vars

\* one call of handle_turnstile(tab, max_retries)
InitTurnstile == TurnstileInit /\ RestIdle /\ ConfigIdle /\ PatchIdle /\ ResetIdle /\ TokenIdle /\ VersionIdle
NextTurnstile ==
    \/ TnLocate /\ UNCHANGED <<restVars, cfVars, ptVars, rsVars, ckVars, vcVars>>
    \/ TnClickedCheck /\ UNCHANGED <<restVars, cfVars, ptVars, rsVars, ckVars, vcVars>>
    \/ TnClickedCheckRaises /\ UNCHANGED <<restVars, cfVars, ptVars, rsVars, ckVars, vcVars>>
    \/ TnAfterCheck /\ UNCHANGED <<restVars, cfVars, ptVars, rsVars, ckVars, vcVars>>
    \/ TnAfterCheckRaises /\ UNCHANGED <<restVars, cfVars, ptVars, rsVars, ckVars, vcVars>>
    \/ TnExhausted /\ UNCHANGED <<restVars, cfVars, ptVars, rsVars, ckVars, vcVars>>
SpecTurnstile == InitTurnstile /\ [][NextTurnstile]_vars

\* one construction of Config
InitConfig == ConfigInit /\ RestIdle /\ TurnstileIdle /\ PatchIdle /\ ResetIdle /\ TokenIdle /\ VersionIdle
NextConfig == ConfigConstruct /\ UNCHANGED <<restVars, tnVars, ptVars, rsVars, ckVars, vcVars>>
SpecConfig == InitConfig /\ [][NextConfig]_vars

\* one run of patch_cursor_get_machine_id(restore_mode=False)
InitPatch == PatchInit /\ RestIdle /\ TurnstileIdle /\ ConfigIdle /\ ResetIdle /\ TokenIdle /\ VersionIdle
NextPatch ==
    \/ PtRequirementsFail /\ UNCHANGED <<restVars, tnVars, cfVars, rsVars, ckVars, vcVars>>
    \/ PtRequirementsOK /\ UNCHANGED <<restVars, tnVars, cfVars, rsVars, ckVars, vcVars>>
    \/ PtVersionFail /\ UNCHANGED <<restVars, tnVars, cfVars, rsVars, ckVars, vcVars>>
    \/ PtVersionOK /\ UNCHANGED <<restVars, tnVars, cfVars, rsVars, ckVars, vcVars>>
    \/ PtBackup /\ UNCHANGED <<restVars, tnVars, cfVars, rsVars, ckVars, vcVars>>
    \/ PtBackupFails /\ UNCHANGED <<restVars, tnVars, cfVars, rsVars, ckVars, vcVars>>
    \/ MjStatFails /\ UNCHANGED <<restVars, tnVars, cfVars, rsVars, ckVars, vcVars>>
    \/ MjWriteTmp /\ UNCHANGED <<restVars, tnVars, cfVars, rsVars, ckVars, vcVars>>
    \/ MjWriteTmpFails /\ UNCHANGED <<restVars, tnVars, cfVars, rsVars, ckVars, vcVars>>
    \/ MjCopyOld /\ UNCHANGED <<restVars, tnVars, cfVars, rsVars, ckVars, vcVars>>
    \/ MjCopyOldFails /\ UNCHANGED <<restVars, tnVars, cfVars, rsVars, ckVars, vcVars>>
    \/ MjMoveRename /\ UNCHANGED <<restVars, tnVars, cfVars, rsVars, ckVars, vcVars>>
    \/ MjMoveCopyStart /\ UNCHANGED <<restVars, tnVars, cfVars, rsVars, ckVars, vcVars>>
    \/ MjMoveFails /\ UNCHANGED <<restVars, tnVars, cfVars, rsVars, ckVars, vcVars>>
    \/ MjMoveCopyWrite /\ UNCHANGED <<restVars, tnVars, cfVars, rsVars, ckVars, vcVars>>
    \/ MjMoveCopyDone /\ UNCHANGED <<restVars, tnVars, cfVars, rsVars, ckVars, vcVars>>
    \/ MjMoveCopyFails /\ UNCHANGED <<restVars, tnVars, cfVars, rsVars, ckVars, vcVars>>
    \/ MjChmod /\ UNCHANGED <<restVars, tnVars, cfVars, rsVars, ckVars, vcVars>>
    \/ MjChmodFails /\ UNCHANGED <<restVars, tnVars, cfVars, rsVars, ckVars, vcVars>>
SpecPatch == InitPatch /\ [][NextPatch]_vars

\* runs of the script one after the other, to patch or to restore
InitPatchRuns == PatchInit /\ RestIdle /\ TurnstileIdle /\ ConfigIdle /\ ResetIdle /\ TokenIdle /\ VersionIdle
NextPatchRuns ==
    \/ PtRequirementsFail /\ UNCHANGED <<restVars, tnVars, cfVars, rsVars, ckVars, vcVars>>
    \/ PtRequirementsOK /\ UNCHANGED <<restVars, tnVars, cfVars, rsVars, ckVars, vcVars>>
    \/ PtVersionFail /\ UNCHANGED <<restVars, tnVars, cfVars, rsVars, ckVars, vcVars>>
    \/ PtVersionOK /\ UNCHANGED <<restVars, tnVars, cfVars, rsVars, ckVars, vcVars>>
    \/ PtBackup /\ UNCHANGED <<restVars, tnVars, cfVars, rsVars, ckVars, vcVars>>
    \/ PtBackupFails /\ UNCHANGED <<restVars, tnVars, cfVars, rsVars, ckVars, vcVars>>
    \/ MjStatFails /\ UNCHANGED <<restVars, tnVars, cfVars, rsVars, ckVars, vcVars>>
    \/ MjWriteTmp /\ UNCHANGED <<restVars, tnVars, cfVars, rsVars, ckVars, vcVars>>
    \/ MjWriteTmpFails /\ UNCHANGED <<restVars, tnVars, cfVars, rsVars, ckVars, vcVars>>
    \/ MjCopyOld /\ UNCHANGED <<restVars, tnVars, cfVars, rsVars, ckVars, vcVars>>
    \/ MjCopyOldFails /\ UNCHANGED <<restVars, tnVars, cfVars, rsVars, ckVars, vcVars>>
    \/ MjMoveRename /\ UNCHANGED <<restVars, tnVars, cfVars, rsVars, ckVars, vcVars>>
    \/ MjMoveCopyStart /\ UNCHANGED <<restVars, tnVars, cfVars, rsVars, ckVars, vcVars>>
    \/ MjMoveFails /\ UNCHANGED <<restVars, tnVars, cfVars, rsVars, ckVars, vcVars>>
    \/ MjMoveCopyWrite /\ UNCHANGED <<restVars, tnVars, cfVars, rsVars, ckVars, vcVars>>
    \/ MjMoveCopyDone /\ UNCHANGED <<restVars, tnVars, cfVars, rsVars, ckVars, vcVars>>
    \/ MjMoveCopyFails /\ UNCHANGED <<restVars, tnVars, cfVars, rsVars, ckVars, vcVars>>
    \/ MjChmod /\ UNCHANGED <<restVars, tnVars, cfVars, rsVars, ckVars, vcVars>>
    \/ MjChmodFails /\ UNCHANGED <<restVars, tnVars, cfVars, rsVars, ckVars, vcVars>>
    \/ PtRestore /\ UNCHANGED <<restVars, tnVars, cfVars, rsVars, ckVars, vcVars>>
    \/ PtRestoreNoBackup /\ UNCHANGED <<restVars, tnVars, cfVars, rsVars, ckVars, vcVars>>
    \/ PtRestoreFails /\ UNCHANGED <<restVars, tnVars, cfVars, rsVars, ckVars, vcVars>>
    \/ PtRunAgain /\ UNCHANGED <<restVars, tnVars, cfVars, rsVars, ckVars, vcVars>>
SpecPatchRuns == InitPatchRuns /\ [][NextPatchRuns]_vars

\* one call of MachineIDResetter().reset_machine_ids()
InitReset == ResetInit /\ RestIdle /\ TurnstileIdle /\ ConfigIdle /\ PatchIdle /\ TokenIdle /\ VersionIdle
NextReset ==
    \/ RsNoAccess /\ UNCHANGED <<restVars, tnVars, cfVars, ptVars, ckVars, vcVars>>
    \/ RsLoad /\ UNCHANGED <<restVars, tnVars, cfVars, ptVars, ckVars, vcVars>>
    \/ RsLoadFails /\ UNCHANGED <<restVars, tnVars, cfVars, ptVars, ckVars, vcVars>>
    \/ RsUpdate /\ UNCHANGED <<restVars, tnVars, cfVars, ptVars, ckVars, vcVars>>
    \/ RsWrite /\ UNCHANGED <<restVars, tnVars, cfVars, ptVars, ckVars, vcVars>>
    \/ RsWriteFails /\ UNCHANGED <<restVars, tnVars, cfVars, ptVars, ckVars, vcVars>>
    \/ RsReturnsTrue /\ UNCHANGED <<restVars, tnVars, cfVars, ptVars, ckVars, vcVars>>
    \/ RsPrintRaises /\ UNCHANGED <<restVars, tnVars, cfVars, ptVars, ckVars, vcVars>>
SpecReset == InitReset /\ [][NextReset]_vars

\* one call of version_check(version, min_version, max_version)
InitVersion == VersionInit /\ RestIdle /\ TurnstileIdle /\ ConfigIdle /\ PatchIdle /\ ResetIdle
               /\ TokenIdle
NextVersion == VersionCheckReturns /\ UNCHANGED <<restVars, tnVars, cfVars, ptVars, rsVars, ckVars>>
SpecVersion == InitVersion /\ [][NextVersion]_vars

\* one call of get_cursor_session_token(tab, max_attempts)
InitToken == TokenInit /\ RestIdle /\ TurnstileIdle /\ ConfigIdle /\ PatchIdle /\ ResetIdle
             /\ VersionIdle
NextToken ==
    \/ CkFound /\ UNCHANGED <<restVars, tnVars, cfVars, ptVars, rsVars, vcVars>>
    \/ CkNotFound /\ UNCHANGED <<restVars, tnVars, cfVars, ptVars, rsVars, vcVars>>
    \/ CkIndexError /\ UNCHANGED <<restVars, tnVars, cfVars, ptVars, rsVars, vcVars>>
    \/ CkReadRaises /\ UNCHANGED <<restVars, tnVars, cfVars, ptVars, rsVars, vcVars>>
    \/ CkGivesUp /\ UNCHANGED <<restVars, tnVars, cfVars, ptVars, rsVars, vcVars>>
SpecToken == InitToken /\ [][NextToken]_vars

----------------------------------------------------------------------------
(* C1, C2, C9: get_verification_code                                       *)

NoneBefore(n) == \A i \in 1..(n - 1) : po_yield[i] = None

\* C1: the call makes at most max_retries attempts; it returns the code of
\* the first attempt whose fetch yields a code, and signals failure only when
\* none of the max_retries attempts yielded a code.
C1_FirstYieldedCodeReturned ==
    /\ Len(po_yield) <= po_max
    /\ po_pc = "done" =>
          IF po_ret = Raised
          THEN Len(po_yield) = po_max /\ NoneBefore(po_max + 1)
          ELSE /\ po_yield # <<>>
               /\ po_ret = po_yield[Len(po_yield)]
               /\ NoneBefore(Len(po_yield))

----------------------------------------------------------------------------
(* C7, C8: update_auth                                                     *)

\* the upserts executed by the call so far
au_executed == SubSeq(au_updates, 1, au_i - 1)

\* C7 (as stated): when update_auth returns False after some upserts were
\* executed, those upserts are visible in the database.
C7_EarlierUpsertsRemain ==
    (au_pc = "done" /\ au_ret = "False") =>
        \A j \in 1..Len(au_executed) : db[au_executed[j][1]] = au_executed[j][2]

\* C7 (amended): all upserts of a call belong to one transaction committed
\* after the last key; when update_auth returns False, whichever statement
\* failed, the database is as it was before the call.
C7_FailedCallChangesNothing ==
    (au_pc = "done" /\ au_ret = "False") => db = db0

\* the third upsert failed after two keys had been upserted with new values
C7_Witness ==
    /\ au_pc = "done" /\ au_ret = "False"
    /\ au_i = 3
    /\ \A j \in 1..2 : db0[au_updates[j][1]] # au_updates[j][2]

Supplied(k) ==
    IF k = SignUpTypeKey THEN Str("Auth_0")
    ELSE IF k = EmailKey THEN au_email
    ELSE IF k = AccessKey THEN au_access
    ELSE IF k = RefreshKey THEN au_refresh
    ELSE None

\* C8: after update_auth returned True, cachedSignUpType and every key whose
\* argument was not None hold the supplied value, and every other key is as
\* it was before the call.
C8_UpsertsApplied ==
    (au_pc = "done" /\ au_ret = "True") =>
        \A k \in Keys :
            db[k] = (IF Supplied(k) # None THEN Supplied(k).val ELSE db0[k])

\* one key inserted, one updated, one left alone because its argument was None
C8_Witness ==
    /\ au_pc = "done" /\ au_ret = "True"
    /\ db0[AccessKey] = Absent /\ db[AccessKey] = "t1"
    /\ db0[EmailKey] = "old" /\ db[EmailKey] = "e1"
    /\ au_refresh = None /\ db0[RefreshKey] = "old" /\ db[RefreshKey] = "old"
    /\ db[OtherKey] = "old"

----------------------------------------------------------------------------
(* C3 - C6: the registration workflow                                      *)

\* C3: when the verification-code page is shown and get_verification_code
\* fails, sign_up_account returns False instead of polling again.
C3_PollerFailureSurfaced ==
    su_pollfails >= 1 => (su_pc = "returned" /\ m_signup = "False")

\* get_verification_code raised MaxPollCalls times in one sign_up_account,
\* which is still in its loop
C3_Witness ==
    /\ su_pollfails = MaxPollCalls /\ su_pc = "verify" /\ m_signup = "none"

\* C4: once handle_turnstile returned False at one of its call sites, no
\* later step of the workflow is executed and sign_up_account returns False.
C4_TurnstileFailureAborts ==
    ht_failed # {} =>
        /\ m_late = {}
        /\ su_pc = "returned" => m_signup = "False"

\* handle_turnstile returned False at all three call sites of a run in which
\* every later step was executed, up to the machine-ID reset
C4_Witness ==
    /\ ht_failed = {"ht1", "ht2", "ht3"} /\ m_late = LaterSteps
    /\ m_signup = "True" /\ au_ret = "True" /\ m_reset /\ m_pc = "ended"

\* C5: in a full-registration run, Config validation has succeeded before
\* the Cursor process is terminated and before a browser is launched.
C5_ConfigCheckedFirst ==
    (m_choice = 2 /\ (m_killed \/ m_probe # "none" \/ m_browser # "none")) => m_cfg

\* a run without .env file ended after Cursor was terminated and both
\* browsers were launched
C5_Witness ==
    /\ m_choice = 2 /\ ConfigOutcome(m_env) = "FileNotFoundError" /\ ~m_cfg
    /\ m_killed /\ m_probe = "quit" /\ m_browser = "quit" /\ m_pc = "ended"

NonEmptyToken == m_token # None /\ m_token.val # ""

----------------------------------------------------------------------------
(* C10: the temp-mail code extractor                                       *)

\* maximal digit runs of t, as <<first, last>> positions
DigitRuns(t) ==
    {r \in (1..Len(t)) \X (1..Len(t)) :
        /\ r[1] <= r[2]
        /\ \A k \in r[1]..r[2] : IsDigit(t[k])
        /\ (r[1] = 1 \/ ~IsDigit(t[r[1] - 1]))
        /\ (r[2] = Len(t) \/ ~IsDigit(t[r[2] + 1]))}

Before(t, r) == IF r[1] = 1 THEN " " ELSE t[r[1] - 1]
After(t, r) == IF r[2] = Len(t) THEN " " ELSE t[r[2] + 1]

FirstRun(t, ok(_)) ==
    LET good == {r \in DigitRuns(t) : r[2] - r[1] + 1 = CodeLen /\ ok(r)}
    IN  IF good = {} THEN None
        ELSE LET r == CHOOSE x \in good : \A y \in good : x[1] <= y[1]
             IN  Str(SubSeq(t, r[1], r[2]))

\* the claim as stated: neither neighbour is a letter, '@' or '.'
ClaimedExtract(t) ==
    LET ok(r) == /\ ~(IsLetter(Before(t, r)) \/ Before(t, r) \in {"@", "."})
                 /\ ~(IsLetter(After(t, r)) \/ After(t, r) \in {"@", "."})
    IN  FirstRun(t, ok)

\* what the pattern selects: no letter, '_', '@' or '.' before, no letter or '_' after
PrecededExtract(t) ==
    LET ok(r) == /\ ~(IsLetter(Before(t, r)) \/ Before(t, r) \in {"@", ".", Underscore})
                 /\ ~(IsLetter(After(t, r)) \/ After(t, r) = Underscore)
    IN  FirstRun(t, ok)

\* C10 (as stated): the extractor returns the first run of exactly six digits
\* that is not adjacent to a letter, '@' or '.', and None when there is none.
C10_FirstRunNotAdjacent == ex_pc = "done" => ex_result = ClaimedExtract(ex_text)

\* C10 (amended): the extractor returns the first run of exactly six digits that
\* is not immediately preceded by a letter, '_', '@' or '.' and not immediately
\* followed by a letter or '_' (a following '@' or '.' does not exclude it), and
\* None when there is no such run; a returned code is exactly six digits.
C10_FirstRunNotPreceded ==
    ex_pc = "done" =>
        /\ ex_result = PrecededExtract(ex_text)
        /\ ex_result # None =>
              /\ Len(ex_result.val) = CodeLen
              /\ \A k \in 1..CodeLen : IsDigit(ex_result.val[k])

\* ".111111 222222.": the first run is preceded by '.', the second one is
\* returned although a '.' follows it
C10_Witness ==
    /\ ex_pc = "done"
    /\ ex_text = Segment(<<".">>, "1", CodeLen, <<>>) \o <<" ">> \o Segment(<<>>, "2", CodeLen, <<".">>)
    /\ ex_result = Str(Run("2", CodeLen))

----------------------------------------------------------------------------
(* C11, C12: which message an attempt reads, and which one it deletes      *)

\* C11: an attempt examines no message but the newest one of the mailbox
\* (first_id of the list, the last id of the search result), and the code it
\* yields is the one found in that message: when the newest message holds no
\* code the attempt yields None, whatever older messages hold.
C11_OnlyNewestExamined ==
    [][Len(po_seen') > Len(po_seen) =>
          LET seen == po_seen'[Len(po_seen')]
              got == po_yield'[Len(po_yield')]
              last == mailbox[Len(mailbox)]
          IN  /\ seen.id # 0 => (mailbox # <<>> /\ seen.id = last.id)
              /\ got # None =>
                    /\ seen.id # 0
                    /\ got = (IF po_imap THEN ImapExtract(last.text)
                                         ELSE TempMailExtract(last.text))
       ]_vars

\* the last attempt read the second message, found no code in it and yielded
\* None while the older message, which holds a code, was in the mailbox
C11_Witness ==
    /\ Len(mailbox) = 2 /\ po_seen # <<>>
    /\ po_seen[Len(po_seen)] = [id |-> mailbox[2].id, code |-> None]
    /\ po_yield[Len(po_yield)] = None
    /\ mailbox[1].id < mailbox[2].id
    /\ ImapExtract(mailbox[1].text) # None /\ TempMailExtract(mailbox[1].text) # None

\* ids of the messages that arrived and are no longer in the mailbox
Gone == {i \in 1..po_arrived : \A k \in 1..Len(mailbox) : mailbox[k].id # i}

ReturnedCode == po_pc = "done" /\ po_ret # Raised

\* C12: a message is deleted only when a code was extracted from it; when a
\* code is returned, the delete was requested before (temp-mail: between one
\* and DeleteTries requests for the id of that message, none after a confirmed
\* one; IMAP: the message is gone); an attempt that does not end with the
\* return of its code deletes no message.
C12_DeleteOnlyConsumed ==
    /\ \A d \in Gone : \E i \in 1..Len(po_seen) : po_seen[i].id = d /\ po_seen[i].code # None
    /\ ReturnedCode =>
          LET seen == po_seen[Len(po_seen)]
          IN  /\ seen.code = po_ret
              /\ Gone \subseteq {seen.id}
              /\ IF po_imap THEN seen.id \in Gone
                 ELSE po_first = seen.id /\ po_del \in 1..DeleteTries
    /\ ~ReturnedCode => Gone = {}
    /\ po_del <= DeleteTries

\* IMAP mode: the only message, which held a code, is gone and the call has
\* raised without returning a code
C12_Witness ==
    /\ po_imap /\ po_pc = "done" /\ po_ret = Raised
    /\ po_arrived = 1 /\ Gone = {1}
    /\ \E i \in 1..Len(po_seen) : po_seen[i].id = 1 /\ po_seen[i].code # None

----------------------------------------------------------------------------
(* C13, C14: handle_turnstile and check_verification_success               *)

\* C13: a call with max_retries = N makes at most N attempts; it returns True
\* as soon as a check during or after an attempt finds a marker, so that no
\* marker was found while it is still running, and it returns False only
\* after N attempts none of whose checks found a marker.
C13_TurnstileBounded ==
    /\ tn_count <= tn_max
    /\ tn_pc \in {"loop", "clicked", "after"} => (tn_status = None /\ tn_ret = "none")
    /\ tn_pc = "done" => tn_ret \in {"True", "False", "TurnstileError"}
    /\ tn_ret = "True" => (tn_status # None /\ tn_count \in 1..tn_max)
    /\ tn_ret = "False" => (tn_status = None /\ tn_count = tn_max)

\* a call that used all its attempts without a marker and returned False
C13_Witness ==
    /\ tn_max = MaxTurnstile /\ tn_count = tn_max /\ tn_pc = "done" /\ tn_ret = "False"

\* the first of PASSWORD_PAGE, CAPTCHA_PAGE, ACCOUNT_SETTINGS that is present
FirstMarker(present) ==
    IF "PASSWORD_PAGE" \in present THEN Str("PASSWORD_PAGE")
    ELSE IF "CAPTCHA_PAGE" \in present THEN Str("CAPTCHA_PAGE")
    ELSE IF "ACCOUNT_SETTINGS" \in present THEN Str("ACCOUNT_SETTINGS")
    ELSE None

\* C14: check_verification_success answers the first marker present in the
\* order PASSWORD_PAGE, CAPTCHA_PAGE, ACCOUNT_SETTINGS, whatever else is on
\* the page, and None exactly when none of the three is present.
C14_FirstMarkerWins ==
    /\ tn_status = FirstMarker(tn_page)
    /\ tn_status = None <=> tn_page \cap {"PASSWORD_PAGE", "CAPTCHA_PAGE", "ACCOUNT_SETTINGS"} = {}

\* the code page and the settings text are both present: CAPTCHA_PAGE wins
C14_Witness ==
    /\ tn_page = {"CAPTCHA_PAGE", "ACCOUNT_SETTINGS"}
    /\ tn_status = Str("CAPTCHA_PAGE") /\ tn_ret = "True"

----------------------------------------------------------------------------
(* C15: Config                                                             *)

Configured(v) == v # <<>> /\ v # NullText

\* the settings violate the rules of the claim
Violating(env) ==
    LET local == LocalPart(Strip(Getenv(env.TEMP_MAIL, <<>>)))
    IN  \/ ~env.dotenv
        \/ Strip(Getenv(env.DOMAIN_, <<>>)) = <<>>
        \/ local # NullText /\ local = <<>>
        \/ local = NullText /\
              \E v \in {env.IMAP_SERVER, env.IMAP_PORT, env.IMAP_USER, env.IMAP_PASS} :
                  ~Configured(Strip(Getenv(v, <<>>)))

\* C15: a Config whose construction completes has a non-empty domain; when
\* the local part of TEMP_MAIL is not "null", imap is False and temp_mail is
\* non-empty; when it is "null", imap is True and server, port, user and
\* password are non-empty and not "null".  Violating settings raise
\* ValueError, a missing .env file FileNotFoundError.
C15_ValidOrRaises ==
    cf_pc = "done" =>
        /\ cf_obj.kind = "Config" =>
              LET c == cf_obj.attrs
              IN  /\ c.domain # <<>>
                  /\ c.temp_mail = LocalPart(Strip(Getenv(cf_env.TEMP_MAIL, <<>>)))
                  /\ c.temp_mail # NullText => (~c.imap /\ c.temp_mail # <<>>)
                  /\ c.temp_mail = NullText =>
                        /\ c.imap
                        /\ \A v \in {c.imap_server, c.imap_port, c.imap_user, c.imap_pass} :
                              Configured(v)
        /\ Violating(cf_env) => cf_obj.kind = "raise"
        /\ cf_obj.kind = "raise" => cf_obj.exc \in {"ValueError", "FileNotFoundError"}
        /\ ~cf_env.dotenv => cf_obj = [kind |-> "raise", exc |-> "FileNotFoundError"]

\* "null@" with all four IMAP settings given: an IMAP configuration
C15_Witness ==
    /\ cf_pc = "done" /\ cf_env.TEMP_MAIL = <<"null", "@">>
    /\ cf_obj.kind = "Config" /\ cf_obj.attrs.imap
    /\ cf_obj.attrs.imap_pass = <<"x">> /\ cf_env.IMAP_PASS = <<"x", " ">>

----------------------------------------------------------------------------
(* C16, C17: the patcher                                                   *)

\* C16: in every state of a run, and after any failure, main.js holds the
\* complete original content or the complete patched content.
C16_MainJsNeverPartial == pt_main \in {pt_main0, Patch(pt_main0)}

\* modify_main_js returned False and left a main.js that is a shorter
\* beginning of the patched content
C16_Witness ==
    /\ pt_pc = "done" /\ mj_ret = "False" /\ pt_exit = "1"
    /\ pt_main \in Partial(Patch(pt_main0)) /\ pt_main # <<>>
    /\ pt_main # pt_main0 /\ pt_tmp = Missing

AllSteps == {"req", "ver", "bak"}
ModifyStarted == pt_pc \in {"copy_old", "move", "copying", "chmod"} \/ mj_ret # "none"
AtLeast_0_45(v) ==
    /\ Len(v) = 3 /\ \A i \in 1..3 : AllDigits(v[i])
    /\ (int(v[1]) > 0 \/ (int(v[1]) = 0 /\ int(v[2]) >= 45))

\* C17: main.js is modified only after the requirement check and the version
\* check (>= 0.45.0) passed and main.js.bak holds a copy of the unmodified
\* file; a run in which one of the three steps failed ends with status 1 and
\* has not touched main.js.
C17_ModifyAfterChecksAndBackup ==
    /\ (ModifyStarted \/ pt_pc = "modify" \/ pt_main # pt_main0 \/ pt_tmp # Missing) =>
          /\ pt_passed = AllSteps
          /\ AtLeast_0_45(pt_ver)
          /\ pt_bak = pt_main0
    /\ (pt_pc = "done" /\ pt_passed # AllSteps) =>
          /\ pt_exit = "1"
          /\ pt_main = pt_main0 /\ pt_tmp = Missing /\ pt_old = Missing /\ mj_ret = "none"
    /\ "bak" \in pt_passed => {"req", "ver"} \subseteq pt_passed
    /\ "ver" \in pt_passed => "req" \in pt_passed

\* a run on version 0.45.0 that backed up main.js and then replaced it by
\* the patched content
C17_Witness ==
    /\ pt_pc = "done" /\ pt_exit = "0" /\ mj_ret = "True"
    /\ pt_ver = MinVersion /\ pt_passed = AllSteps
    /\ pt_bak = pt_main0 /\ pt_main = Patch(pt_main0) /\ pt_main # pt_main0

----------------------------------------------------------------------------
(* C18: reset_machine_ids                                                  *)

\* the keys of a JSON object, and the value a reader finds for a key of it:
\* the one of its last member with that key
KeysOf(file) == {file.members[i][1] : i \in 1..Len(file.members)}
ValueOf(file, k) ==
    LET at == {i \in 1..Len(file.members) : file.members[i][1] = k}
    IN  file.members[CHOOSE i \in at : \A j \in at : j <= i][2]

\* C18: after reset_machine_ids returned True the file is a JSON object in
\* which the four telemetry keys hold the generated values and every other
\* key of the file as it was holds its previous value; no other key is added.
C18_OnlyFourKeysRewritten ==
    rs_ret = "True" =>
        /\ rs_file.kind = "object" /\ rs_file0.kind = "object"
        /\ KeysOf(rs_file) = KeysOf(rs_file0) \cup TelemetryKeys
        /\ \A k \in TelemetryKeys : ValueOf(rs_file, k) = rs_new[k]
        /\ \A k \in KeysOf(rs_file0) \ TelemetryKeys : ValueOf(rs_file, k) = ValueOf(rs_file0, k)
        /\ \A i, j \in 1..Len(rs_file.members) :
              rs_file.members[i][1] = rs_file.members[j][1] => i = j

\* one identifier is replaced, the other key keeps its value, three
\* identifiers are added
C18_Witness ==
    /\ rs_ret = "True"
    /\ rs_file0 = JsonObject(<< <<"other.a", "v1">>, <<MachineId, "v2">> >>)
    /\ ValueOf(rs_file, MachineId) = "n2" /\ ValueOf(rs_file, "other.a") = "v1"
    /\ Len(rs_file.members) = 5

----------------------------------------------------------------------------
(* C19: get_cursor_session_token                                           *)

HasDelimiter(v) == \E i \in 1..(Len(v) - 1) : v[i] = Colon /\ v[i + 1] = Colon

\* the text between the first delimiter of v and the next one, or the end
SegmentAfterFirstDelimiter(v) ==
    LET p == CHOOSE i \in 1..(Len(v) - 1) :
                 /\ v[i] = Colon /\ v[i + 1] = Colon
                 /\ \A j \in 1..(i - 1) : ~(v[j] = Colon /\ v[j + 1] = Colon)
        rest == SubSeq(v, p + 2, Len(v))
        ends == {i \in 1..(Len(rest) - 1) : rest[i] = Colon /\ rest[i + 1] = Colon}
    IN  IF ends = {} THEN rest
        ELSE SubSeq(rest, 1, (CHOOSE i \in ends : \A j \in ends : i <= j) - 1)

GoodCookies(jar) ==
    {i \in 1..Len(jar) : jar[i].name = TokenCookie /\ HasDelimiter(jar[i].value)}

\* the call is still running after a read, or gave up after its last one
ReadFailed == ck_reads > 0 /\ (ck_pc = "loop" \/ (ck_pc = "done" /\ ck_ret = None))

\* what holds whichever cookie decides: at most N reads, a value or None at
\* the end, None only after N reads
TokenReadsBounded ==
    /\ ck_reads <= ck_max /\ ck_attempts <= ck_reads
    /\ ck_pc = "done" => (ck_ret = None \/ ck_ret.kind = "str")
    /\ (ck_pc = "done" /\ ck_ret = None) => ck_reads = ck_max
    /\ ck_pc = "loop" => ck_ret = None

\* C19: at most N reads and no exception; as soon as the cookies
\* hold a WorkosCursorSessionToken cookie whose value contains the delimiter,
\* the segment after its first delimiter is returned; None after N reads
\* without such a cookie.
C19_AnyGoodCookieReturned ==
    /\ TokenReadsBounded
    /\ ReadFailed => GoodCookies(ck_jar) = {}
    /\ (ck_pc = "done" /\ ck_ret # None) =>
          \E i \in GoodCookies(ck_jar) : ck_ret = Str(SegmentAfterFirstDelimiter(ck_jar[i].value))

\* the only read found a cookie of that name without delimiter before one
\* with it, and the call returned None
C19_Witness ==
    /\ ck_max = 1 /\ ck_reads = 1 /\ ck_pc = "done" /\ ck_ret = None
    /\ ck_jar = <<[name |-> TokenCookie, value |-> <<"s">>],
                  [name |-> TokenCookie, value |-> <<"s", Colon, Colon, "t">>]>>

----------------------------------------------------------------------------
(* C20: the menu                                                           *)

RegistrationTouched ==
    \/ m_probe # "none" \/ m_browser # "none" \/ m_cfg
    \/ su_pc # "idle" \/ su_polls > 0
    \/ au_pc # "idle" \/ db # db0
    \/ m_signup # "none" \/ m_token # None

\* C20: the sequences start only after an input that parses to 1 or 2; with
\* choice 1 the machine-ID reset alone is executed (no browser, no poll of
\* the mailbox, no write to the auth database) and the process exits with
\* status 0; with choice 2 the registration sequence is entered and the
\* reset-only exit is not taken.
C20_MenuGatesSequence ==
    /\ m_choice \in {0, 1, 2}
    /\ (RegistrationTouched \/ m_reset) => m_choice \in {1, 2}
    /\ m_pc \in {"start", "exit_cursor", "menu"} => m_choice = 0
    /\ m_choice = 1 => ~RegistrationTouched
    /\ (m_choice = 1 /\ m_pc = "ended") => (m_reset /\ m_exit = "0")
    /\ m_choice = 2 => (m_pc # "reset_only" /\ m_exit # "0")

\* choice 1, the reset was made and nothing else, and the process ended with
\* a traceback at the closing prompt
C20_Witness ==
    /\ m_choice = 1 /\ m_pc = "ended" /\ m_reset /\ m_ids = "new"
    /\ ~RegistrationTouched /\ m_exit = "traceback"

----------------------------------------------------------------------------
(* C21: version_check                                                      *)

\* N.N.N of decimal integers
ThreeNumbers(t) == Len(t) = 3 /\ \A i \in 1..3 : t[i] # <<>> /\ \A k \in 1..Len(t[i]) : t[i][k] \in Digits

\* a <= b, component by component as integers, of two texts N.N.N
NotAbove(a, b) ==
    \/ \A i \in 1..3 : int(a[i]) = int(b[i])
    \/ \E i \in 1..3 : int(a[i]) < int(b[i]) /\ \A j \in 1..(i - 1) : int(a[j]) = int(b[j])

\* C21: version_check returns True exactly when the version is N.N.N of
\* decimal integers, is not below a given min_version and not above a given
\* max_version (components compared as integers); a malformed version or
\* bound gives False; nothing is raised.
C21_VersionCheckExact ==
    vc_pc = "done" =>
        vc_ret = /\ ThreeNumbers(vc_version)
                 /\ vc_min # EmptyText => (ThreeNumbers(vc_min) /\ NotAbove(vc_min, vc_version))
                 /\ vc_max # EmptyText => (ThreeNumbers(vc_max) /\ NotAbove(vc_version, vc_max))

\* True was returned for version "0.9.0" with the malformed min_version "0.9"
C21_Witness ==
    /\ vc_pc = "done" /\ vc_ret = TRUE
    /\ vc_version = <<<<"0">>, <<"9">>, <<"0">>>>
    /\ vc_min = <<<<"0">>, <<"9">>>> /\ vc_max = EmptyText

----------------------------------------------------------------------------
(* C22: patch runs followed by a restore                                   *)

\* C22: once a patch run has saved main.js in main.js.bak, later patch runs
\* leave the saved original there, and a restore that follows one or more
\* patch runs gives main.js the content it had before the first of them.
C22_RestoreGivesOriginal ==
    /\ pt_backups >= 1 => pt_bak = pt_orig
    /\ (pt_backups >= 1 /\ pt_restore /\ pt_pc = "done" /\ rb_ret = "True") =>
          pt_main = pt_orig

\* two patch runs that both changed main.js, then a restore that answered
\* True: main.js holds the content the first patch run wrote
C22_Witness ==
    /\ pt_runs = 3 /\ pt_restore /\ pt_pc = "done" /\ rb_ret = "True"
    /\ pt_backups = 2 /\ pt_orig = pt_main0 /\ pt_old = Patch(pt_orig)
    /\ pt_main = Patch(pt_orig) /\ pt_main # pt_orig /\ pt_bak = pt_main

----------------------------------------------------------------------------
(* C23: the cleanup after a code was extracted                             *)

\* C23: in temp-mail mode, once an attempt has extracted a code the call is
\* in the cleanup or has returned this code: no outcome of the delete
\* requests leads to another attempt or to an exception.
C23_CleanupKeepsCode ==
    (~po_imap /\ po_code # None) =>
        /\ po_pc \in {"cleanup", "done"}
        /\ po_pc = "done" => po_ret = po_code

\* the last attempt extracted a code, a delete request raised, and the call
\* ended with the exception
C23_Witness ==
    /\ ~po_imap /\ po_code # None /\ po_pc = "done" /\ po_ret = Raised
    /\ po_del >= 1 /\ Len(po_yield) = po_max /\ po_yield[po_max] = po_code

----------------------------------------------------------------------------
(* C24: the failures of modify_main_js                                     *)

\* C24: modify_main_js does not raise, and when it returns False its
\* temporary file is gone and main.js holds the content it had at the call.
C24_FailureLeavesMainJs ==
    /\ mj_ret # "raised"
    /\ mj_ret = "False" => (pt_tmp = Missing /\ pt_main = pt_main0)

\* main.js was replaced by the patched content, then chmod or chown failed
\* and the exception of os.unlink left modify_main_js
C24_Witness ==
    /\ mj_ret = "raised" /\ pt_pc = "done" /\ pt_exit = "1"
    /\ pt_main = Patch(pt_main0) /\ pt_main # pt_main0 /\ pt_tmp = Missing

----------------------------------------------------------------------------
(* C25: the IMAP connections                                               *)

\* C25: no IMAP connection is held open while another invocation of
\* _get_mail_code_by_imap runs, so at most one is open at any time, and no
\* invocation returns without having logged out of the connection it opened.
C25_ConnectionsLoggedOut == po_open = 0 /\ po_left = 0

\* two invocations wait with their connections open while a third is about
\* to connect
C25_Witness == po_imap /\ po_pc = "imap" /\ po_retry = 2 /\ po_open = 2

----------------------------------------------------------------------------
(* C26: the browsers                                                       *)

\* C26: when the program has ended, neither the probe browser of
\* get_user_agent nor the registration browser is still running.
C26_BrowsersQuit ==
    m_pc = "ended" => (m_probe # "running" /\ m_browser # "running")

\* the program ended after the registration browser was quit, with the probe
\* browser still running
C26_Witness ==
    /\ m_pc = "ended" /\ m_choice = 2
    /\ m_probe = "running" /\ m_browser = "quit"

====
